---------------------------- MODULE Spec2Model ----------------------------
(***************************************************************************)
(* The sandboxed file-access engine of src/src/file_operations/__init__.py *)
(* (class SecureFileManager and the handle_* dispatchers), as a state      *)
(* machine over a small POSIX-like storage.                                *)
(*                                                                         *)
(* A name is a sequence of one-character strings, a path a sequence of     *)
(* names; str(path) is the "/"-joined character sequence, so that the      *)
(* string prefix test of _is_path_allowed is computed character by         *)
(* character.  A raw path (what the caller passes) may hold ".." segments  *)
(* and symlink components; the storage maps canonical paths to nodes.      *)
(*                                                                         *)
(* The response cache of src/src/weather_service/__init__.py               *)
(* (WeatherService._make_api_request) is a second state machine, on        *)
(* variables of its own.                                                   *)
(***************************************************************************)
EXTENDS Integers, Sequences, FiniteSets, TLC

VARIABLES fs, allowed_dirs, last, writes, flight,
          weather_cache, clock, elapsed, calls, served

\* the variables of the file engine and those of the weather service
fvars == <<fs, allowed_dirs, last, writes, flight>>

wvars == <<weather_cache, clock, elapsed, calls, served>>

vars == <<fvars, wvars>>

(***************************************************************************)
(* Bounds of the model.                                                    *)
(***************************************************************************)
\* successful writes per behaviour
MaxWrites == 1
\* nested symlink expansions followed while resolving one path
MaxLinkDepth == 2

(***************************************************************************)
(* Security configuration (module constants of the source).                *)
(***************************************************************************)
MAX_FILE_SIZE == 10 * 1024 * 1024

ALLOWED_EXTENSIONS ==
  { <<".","t","x","t">>, <<".","m","d">>, <<".","j","s","o","n">>,
    <<".","y","a","m","l">>, <<".","y","m","l">>, <<".","c","s","v">>,
    <<".","l","o","g">>, <<".","p","y">>, <<".","j","s">>,
    <<".","h","t","m","l">>, <<".","c","s","s">>, <<".","x","m","l">>,
    <<".","i","n","i">>, <<".","c","f","g">> }

DANGEROUS_EXTENSIONS ==
  { <<".","e","x","e">>, <<".","b","a","t">>, <<".","c","m","d">>,
    <<".","s","h">>, <<".","p","s","1">>, <<".","d","l","l">>,
    <<".","s","o">> }

(***************************************************************************)
(* Strings.                                                                *)
(***************************************************************************)
Upper == <<"A","B","C","D","E","F","G","H","I","J","K","L","M",
           "N","O","P","Q","R","S","T","U","V","W","X","Y","Z">>

Lower == <<"a","b","c","d","e","f","g","h","i","j","k","l","m",
           "n","o","p","q","r","s","t","u","v","w","x","y","z">>

\* the one element of a singleton.  Only({ e(x) : x \in {v} }) is e(v) with v
\* computed once, where LET x == v IN e(x) computes v at every use of x
Only(S) == CHOOSE v \in S : TRUE

\* str.lower() on one character
LowerChar(c) ==
  IF \E i \in 1..Len(Upper) : Upper[i] = c
  THEN Lower[CHOOSE i \in 1..Len(Upper) : Upper[i] = c]
  ELSE c

\* str.lower()
ToLower(s) == [i \in 1..Len(s) |-> LowerChar(s[i])]

\* str.startswith(prefix)
StartsWith(s, prefix) ==
  /\ Len(prefix) <= Len(s)
  /\ SubSeq(s, 1, Len(prefix)) = prefix

\* str.rfind('.') as a 1-based index, 0 when there is no dot
RFindDot(s) ==
  IF \E i \in 1..Len(s) : s[i] = "."
  THEN CHOOSE i \in 1..Len(s) :
         s[i] = "." /\ \A j \in (i+1)..Len(s) : s[j] # "."
  ELSE 0

(***************************************************************************)
(* pathlib: pure path arithmetic.                                          *)
(***************************************************************************)
DotDot == <<".",".">>

RECURSIVE Str(_)
\* str(path) of an absolute path
Str(p) ==
  IF p = <<>> THEN <<"/">>
  ELSE IF Len(p) = 1 THEN <<"/">> \o p[1]
  ELSE Str(SubSeq(p, 1, Len(p) - 1)) \o <<"/">> \o p[Len(p)]

\* PurePath.name
Name(p) == IF p = <<>> THEN <<>> ELSE p[Len(p)]

\* PurePath.parent (lexical: the last segment is dropped, whatever it is)
Parent(p) == IF p = <<>> THEN <<>> ELSE SubSeq(p, 1, Len(p) - 1)

\* PurePath.suffix: name[i:] for i = name.rfind('.') when 0 < i < len(name)-1
\* (0-based), else ''
Suffix(p) ==
  LET name == Name(p)
      i    == RFindDot(name)
  IN  IF 1 < i /\ i < Len(name) THEN SubSeq(name, i, Len(name)) ELSE <<>>

(***************************************************************************)
(* Storage.  fs maps the canonical path of every existing object to its    *)
(* node; a path outside DOMAIN fs does not exist.                          *)
(***************************************************************************)
\* fault is the errno the storage answers an open or a scandir of the object
\* with ("" when it serves it): "EACCES" for missing permissions, "EIO" for a
\* failing device
NoNode == [kind |-> "none", data |-> "", size |-> 0, utf8 |-> TRUE,
           fault |-> "", target |-> <<>>]

DirNode(fault) == [kind |-> "dir", data |-> "", size |-> 0, utf8 |-> TRUE,
                   fault |-> fault, target |-> <<>>]

FileNode(data, size, utf8, fault) ==
  [kind |-> "file", data |-> data, size |-> size, utf8 |-> utf8,
   fault |-> fault, target |-> <<>>]

LinkNode(target) == [kind |-> "link", data |-> "", size |-> 0, utf8 |-> TRUE,
                     fault |-> "", target |-> target]

\* lstat: the node at a canonical path, links not followed
NodeAt(f, p) == IF p \in DOMAIN f THEN f[p] ELSE NoNode

\* the OSError subclass Python raises for an errno
ErrnoClass(errno) ==
  CASE errno = "ENOENT"  -> "FileNotFoundError"
    [] errno = "ENOTDIR" -> "NotADirectoryError"
    [] errno = "EEXIST"  -> "FileExistsError"
    [] errno = "EACCES"  -> "PermissionError"
    [] errno = "EISDIR"  -> "IsADirectoryError"
    [] OTHER             -> "OSError"

\* a segment holding an embedded NUL character: no system call accepts it
NulName == <<"\\0">>

HasNul(raw) == \E i \in 1..Len(raw) : raw[i] = NulName


(***************************************************************************)
(* Path resolution.  A result is [ok, path]: ok is FALSE when resolution   *)
(* fails, path is the canonical path reached.  Symlink targets are         *)
(* absolute raw paths.                                                     *)
(***************************************************************************)
RECURSIVE JoinRealPath(_, _, _, _)
\* posixpath._joinrealpath with strict=False, as Path.resolve() calls it:
\* ".." pops the last component, a symlink is replaced by its resolved
\* target, and a component that does not exist is kept as written.
JoinRealPath(f, path, rest, depth) ==
  IF rest = <<>> THEN [ok |-> TRUE, path |-> path]
  ELSE
    LET name    == Head(rest)
        tail    == Tail(rest)
        newpath == Append(path, name)
    IN  IF name = DotDot THEN JoinRealPath(f, Parent(path), tail, depth)
        ELSE IF NodeAt(f, newpath).kind # "link"
          THEN JoinRealPath(f, newpath, tail, depth)
        ELSE IF depth = 0 THEN [ok |-> FALSE, path |-> newpath \o tail]
        ELSE
          LET r == JoinRealPath(f, <<>>, NodeAt(f, newpath).target, depth - 1)
          IN  IF r.ok THEN JoinRealPath(f, r.path, tail, depth)
              ELSE [ok |-> FALSE, path |-> r.path \o tail]

\* Path.resolve(): raises (ok = FALSE) on an embedded NUL and on a symlink
\* loop, otherwise the canonical path
Resolve(f, raw) ==
  IF HasNul(raw) THEN [ok |-> FALSE, path |-> raw]
  ELSE JoinRealPath(f, <<>>, raw, MaxLinkDepth)

RECURSIVE Lookup(_, _, _, _)
\* The kernel's path walk, which every stat/open/mkdir/scandir on a raw path
\* performs: each intermediate component must be an existing directory,
\* ".." is the physical parent, symlinks are followed.  The object named may
\* itself be absent (ok = TRUE and no node at path).
Lookup(f, path, rest, depth) ==
  IF rest = <<>> THEN [ok |-> TRUE, path |-> path]
  ELSE
    LET name    == Head(rest)
        tail    == Tail(rest)
        newpath == Append(path, name)
    IN  IF path # <<>> /\ NodeAt(f, path).kind # "dir"
          THEN [ok |-> FALSE, path |-> path]
        ELSE IF name = DotDot THEN Lookup(f, Parent(path), tail, depth)
        ELSE IF NodeAt(f, newpath).kind # "link"
          THEN Lookup(f, newpath, tail, depth)
        ELSE IF depth = 0 THEN [ok |-> FALSE, path |-> newpath]
        ELSE
          LET r == Lookup(f, <<>>, NodeAt(f, newpath).target, depth - 1)
          IN  IF r.ok THEN Lookup(f, r.path, tail, depth)
              ELSE [ok |-> FALSE, path |-> r.path]

\* where a system call on the raw path lands
Locate(f, raw) ==
  IF HasNul(raw) THEN [ok |-> FALSE, path |-> raw]
  ELSE Lookup(f, <<>>, raw, MaxLinkDepth)

\* os.stat(raw): the node the raw path names (NoNode: the call fails)
StatNode(f, raw) ==
  LET r == Locate(f, raw) IN IF r.ok THEN NodeAt(f, r.path) ELSE NoNode

\* Path.exists(), Path.is_file(), Path.is_dir(): False on ENOENT, ENOTDIR,
\* ELOOP and on an embedded NUL
Exists(f, raw) == StatNode(f, raw).kind # "none"

IsFile(f, raw) == StatNode(f, raw).kind = "file"

IsDir(f, raw) == StatNode(f, raw).kind = "dir"

(***************************************************************************)
(* SecureFileManager: construction and the two policy checks.              *)
(***************************************************************************)
N_a  == <<"a">>
N_b  == <<"b">>
N_bc == <<"b","c">>
N_x  == <<"x">>
N_w  == <<"w">>
N_d  == <<"d">>
N_l  == <<"l">>
N_k  == <<"k">>
N_md == <<"n",".","m","d">>
N_SH == <<"n",".","S","H">>
N_q  == <<"q",".","m","d">>
N_qSH == <<"q",".","S","H">>
N_h  == <<".","h",".","m","d">>

\* the allowed_dirs argument the manager is constructed with
ConfiguredDirs == { <<N_a, N_b>>, <<N_w>> }

\* SecureFileManager.__init__: every configured directory resolved, as a string
InitAllowedDirs(f) == { Str(Resolve(f, d).path) : d \in ConfiguredDirs }

\* SecureFileManager._is_path_allowed
IsPathAllowed(dirs, f, file_path) ==
  LET resolved_path == Resolve(f, file_path)
  IN  IF ~resolved_path.ok THEN FALSE
      ELSE \E allowed_dir \in dirs :
             StartsWith(Str(resolved_path.path), allowed_dir)

\* an extension check that compares the suffix as written
ExtensionAllowedAsWritten(file_path, dangerous, allowed) ==
  LET extension == Suffix(file_path)
  IN  IF extension \in dangerous THEN FALSE
      ELSE IF allowed # {} /\ extension \notin allowed THEN FALSE
      ELSE TRUE

\* SecureFileManager._is_extension_allowed, over the two extension sets
ExtensionAllowedIn(file_path, dangerous, allowed) ==
  LET extension == ToLower(Suffix(file_path))
  IN  IF extension \in dangerous THEN FALSE
      ELSE IF allowed # {} /\ extension \notin allowed THEN FALSE
      ELSE TRUE

IsExtensionAllowed(file_path) ==
  ExtensionAllowedIn(file_path, DANGEROUS_EXTENSIONS, ALLOWED_EXTENSIONS)

(***************************************************************************)
(* Results.  A manager method returns a dictionary: a success payload, or  *)
(* {"error": message}.  kind = "raise" is an exception leaving the code    *)
(* modelled.  io is the set of storage accesses the call made after path   *)
(* resolution: [act, at] with at the canonical path accessed.              *)
(***************************************************************************)
NoPayload == [empty |-> TRUE]

Ok(payload, io) ==
  [kind |-> "ok", error |-> "", exc |-> "", payload |-> payload, io |-> io]

Err(message, io) ==
  [kind |-> "error", error |-> message, exc |-> "", payload |-> NoPayload,
   io |-> io]

Raise(exc, io) ==
  [kind |-> "raise", error |-> "", exc |-> exc, payload |-> NoPayload,
   io |-> io]

\* the classes derived from Exception that the modelled code can raise
ExceptionClasses ==
  { "PermissionError", "IsADirectoryError", "NotADirectoryError",
    "FileNotFoundError", "FileExistsError", "OSError",
    "UnicodeDecodeError", "UnicodeEncodeError", "KeyError", "ValueError" }

\* a handler that catches the errors of the operating system only
ExceptOSError(body, message) ==
  Only({ IF b.kind = "raise"
            /\ b.exc \in { "PermissionError", "IsADirectoryError",
                           "NotADirectoryError", "FileNotFoundError",
                           "FileExistsError", "OSError" }
         THEN Err(message, b.io) ELSE b : b \in {body} })

\* try: body / except Exception: return {"error": message}
ExceptException(body, message) ==
  Only({ IF b.kind = "raise" /\ b.exc \in ExceptionClasses
         THEN Err(message, b.io) ELSE b : b \in {body} })

\* one storage access
IO(act, f, raw) == { [act |-> act, at |-> Locate(f, raw).path] }

\* Python's `a or b` on an optional integer: <<>> is None, <<n>> is n
PyOr(a, b) == IF a = <<>> \/ a[1] = 0 THEN b ELSE a[1]

\* SecureFileManager._get_file_info
GetFileInfo(f, file_path) ==
  LET stat_info == StatNode(f, file_path)
  IN  IF stat_info.kind = "none"
      THEN [error |-> "Cannot access file info", name |-> <<>>,
            path |-> <<>>, size |-> 0, is_file |-> FALSE, is_dir |-> FALSE,
            extension |-> <<>>]
      ELSE [error |-> "", name |-> Name(file_path), path |-> Str(file_path),
            size |-> stat_info.size, is_file |-> stat_info.kind = "file",
            is_dir |-> stat_info.kind = "dir",
            extension |-> ToLower(Suffix(file_path))]

(***************************************************************************)
(* Text.  The byte content of a file is named by its data token.  Chars    *)
(* gives the characters the bytes encode; read_text decodes them with      *)
(* universal newlines, write_text writes the characters as they are.       *)
(***************************************************************************)
RECURSIVE JoinLines(_)
\* the content whose split('\n') is lines
JoinLines(lines) ==
  IF lines = <<>> THEN <<>>
  ELSE IF Len(lines) = 1 THEN lines[1]
  ELSE lines[1] \o <<"\n">> \o JoinLines(Tail(lines))

\* the characters of the content a token names; a token of bulk content
\* stands for itself as one run of ordinary characters
Chars(data) ==
  CASE data = "one"  -> <<"1">>
    [] data = "two"  -> <<"o","k">>
    [] data = "note" -> <<"h","i","\n","n","o">>
    [] data = "data" -> <<"H","i">>
    [] data = "cr"   -> <<"a","\r","b">>
    [] data = "many" -> JoinLines(<< <<"x">> >> \o [i \in 1..11 |-> <<"n">>])
    [] OTHER         -> <<data>>

RECURSIVE UniversalNewlines(_)
\* io.TextIOWrapper with newline=None, reading: "\r\n" and "\r" become "\n"
UniversalNewlines(s) ==
  IF s = <<>> THEN <<>>
  ELSE IF Head(s) = "\r"
    THEN <<"\n">> \o UniversalNewlines(
           IF Len(s) > 1 /\ s[2] = "\n" THEN Tail(Tail(s)) ELSE Tail(s))
  ELSE <<Head(s)>> \o UniversalNewlines(Tail(s))

\* Path.read_text(encoding='utf-8') of the bytes a token names
ReadText(data) == UniversalNewlines(Chars(data))

RECURSIVE Split(_)
\* str.split('\n')
Split(s) ==
  IF \A i \in 1..Len(s) : s[i] # "\n" THEN <<s>>
  ELSE LET i == CHOOSE k \in 1..Len(s) :
                  s[k] = "\n" /\ \A j \in 1..(k - 1) : s[j] # "\n"
       IN  <<SubSeq(s, 1, i - 1)>> \o Split(SubSeq(s, i + 1, Len(s)))

\* the lines of the text read
TextLines(data) == Split(ReadText(data))

(***************************************************************************)
(* SecureFileManager.read_file                                             *)
(***************************************************************************)
\* the limit read_file applies
ReadSizeLimit(max_size) == PyOr(max_size, MAX_FILE_SIZE)

\* lines 141-156: read as text, fall back to bytes, build the payload
ReadContent(f, path, file_size) ==
  LET node == StatNode(f, path)
      io   == IO("stat", f, path) \cup IO("read", f, path)
  IN  IF node.kind = "none" THEN Raise("FileNotFoundError", io)
      ELSE IF node.kind = "dir" THEN Raise("IsADirectoryError", io)
      ELSE IF node.fault # "" THEN Raise(ErrnoClass(node.fault), io)
      ELSE Ok([content      |-> IF node.utf8 THEN ReadText(node.data)
                                ELSE <<"<binary data>">>,
               binary_len   |-> IF node.utf8 THEN 0 ELSE node.size,
               content_type |-> IF node.utf8 THEN "text" ELSE "binary",
               size         |-> file_size,
               encoding     |-> IF node.utf8 THEN "utf-8" ELSE "binary",
               file_info    |-> GetFileInfo(f, path)], io)

\* a read that looks at the size before the extension
ReadFileSizeFirst(dirs, f, path, max_size) ==
  IF ~IsPathAllowed(dirs, f, path)
    THEN Err("Access denied: Path not in allowed directories", {})
  ELSE IF ~Exists(f, path)
    THEN Err("File not found", IO("stat", f, path))
  ELSE IF ~IsFile(f, path)
    THEN Err("Not a file", IO("stat", f, path))
  ELSE IF StatNode(f, path).size > ReadSizeLimit(max_size)
    THEN Err("File too large", IO("stat", f, path))
  ELSE IF ~IsExtensionAllowed(path)
    THEN Err("File type not allowed", IO("stat", f, path))
  ELSE ReadContent(f, path, StatNode(f, path).size)

\* a read that applies the extension policy before it looks at the file
ReadFilePolicyFirst(dirs, f, path, max_size) ==
  IF ~IsPathAllowed(dirs, f, path)
    THEN Err("Access denied: Path not in allowed directories", {})
  ELSE IF ~IsExtensionAllowed(path)
    THEN Err("File type not allowed", {})
  ELSE IF ~Exists(f, path)
    THEN Err("File not found", IO("stat", f, path))
  ELSE IF ~IsFile(f, path)
    THEN Err("Not a file", IO("stat", f, path))
  ELSE IF StatNode(f, path).size > ReadSizeLimit(max_size)
    THEN Err("File too large", IO("stat", f, path))
  ELSE ReadContent(f, path, StatNode(f, path).size)

\* the body of the try block
ReadFileBody(dirs, f, path, max_size) ==
  IF ~IsPathAllowed(dirs, f, path)
    THEN Err("Access denied: Path not in allowed directories", {})
  ELSE IF ~Exists(f, path)
    THEN Err("File not found", IO("stat", f, path))
  ELSE IF ~IsFile(f, path)
    THEN Err("Not a file", IO("stat", f, path))
  ELSE IF ~IsExtensionAllowed(path)
    THEN Err("File type not allowed", IO("stat", f, path))
  ELSE
    LET file_size  == StatNode(f, path).size
        size_limit == ReadSizeLimit(max_size)
    IN  IF file_size > size_limit
          THEN Err("File too large", IO("stat", f, path))
        ELSE ReadContent(f, path, file_size)

ReadFile(dirs, f, file_path, max_size) ==
  ExceptException(ReadFileBody(dirs, f, file_path, max_size),
                  "Failed to read file")

(***************************************************************************)
(* Storage updates.  An update result is [exc, fs, io]: exc = "" when the  *)
(* call returned, else the exception class raised; fs is the storage the   *)
(* call leaves behind and io the accesses that changed it.                 *)
(***************************************************************************)
Put(f, p, node) == [q \in DOMAIN f \cup {p} |-> IF q = p THEN node ELSE f[q]]

\* os.mkdir(raw): the errno, "" on success.  The final component is not
\* followed when it is a symlink.
MkdirErrno(f, raw) ==
  LET dir == Locate(f, Parent(raw))
  IN  IF raw = <<>> THEN "EEXIST"
      ELSE IF ~dir.ok THEN "ENOENT"
      ELSE IF dir.path # <<>> /\ NodeAt(f, dir.path).kind = "none" THEN "ENOENT"
      ELSE IF dir.path # <<>> /\ NodeAt(f, dir.path).kind # "dir" THEN "ENOTDIR"
      ELSE IF Name(raw) = DotDot THEN "EEXIST"
      ELSE IF NodeAt(f, Append(dir.path, Name(raw))).kind # "none" THEN "EEXIST"
      ELSE IF NodeAt(f, dir.path).fault # "" THEN NodeAt(f, dir.path).fault
      ELSE ""

\* the storage after a successful os.mkdir(raw)
MkdirDone(f, raw) ==
  LET at == Append(Locate(f, Parent(raw)).path, Name(raw))
  IN  [exc |-> "", fs |-> Put(f, at, DirNode("")),
       io |-> { [act |-> "mkdir", at |-> at] }]

\* lines of Path.mkdir after the parents were made: self.mkdir(mode,
\* parents=False, exist_ok=True) on the storage up left
MkdirAgain(up, raw) ==
  LET again == MkdirErrno(up.fs, raw)
  IN  IF up.exc # "" THEN up
      ELSE IF again = ""
        THEN [MkdirDone(up.fs, raw) EXCEPT !.io = @ \cup up.io]
      ELSE IF again # "ENOENT" /\ IsDir(up.fs, raw) THEN up
      ELSE [up EXCEPT !.exc = ErrnoClass(again)]

RECURSIVE MkdirParents(_, _)
\* Path.mkdir(parents=True, exist_ok=True)
MkdirParents(f, raw) ==
  LET errno == MkdirErrno(f, raw)
  IN  IF errno = "" THEN MkdirDone(f, raw)
      ELSE IF errno = "ENOENT" THEN
        IF raw = <<>> THEN [exc |-> "FileNotFoundError", fs |-> f, io |-> {}]
        ELSE Only({ MkdirAgain(up, raw) : up \in {MkdirParents(f, Parent(raw))} })
      ELSE IF IsDir(f, raw) THEN [exc |-> "", fs |-> f, io |-> {}]
      ELSE [exc |-> ErrnoClass(errno), fs |-> f, io |-> {}]

\* the longest file name, in bytes, the file system takes
NAME_MAX == 255

\* Path.write_text(text): open(raw, "w") creates or truncates the file the
\* raw path leads to, following symlinks, and the text is written to it; a
\* name longer than NAME_MAX is refused
WriteText(f, raw, content) ==
  LET loc  == Locate(f, raw)
      node == NodeAt(f, loc.path)
      dir  == NodeAt(f, Parent(loc.path))
      fail(errno) == [exc |-> ErrnoClass(errno), fs |-> f, io |-> {}]
  IN  IF HasNul(raw) THEN [exc |-> "ValueError", fs |-> f, io |-> {}]
      ELSE IF Len(Name(raw)) > NAME_MAX THEN fail("ENAMETOOLONG")
      ELSE IF ~loc.ok THEN
        fail(IF NodeAt(f, loc.path).kind = "none" THEN "ENOENT" ELSE "ENOTDIR")
      ELSE IF node.kind = "dir" THEN fail("EISDIR")
      ELSE IF node.kind = "file" /\ node.fault # "" THEN fail(node.fault)
      ELSE IF node.kind = "none" /\ dir.kind # "dir"
        THEN fail(IF dir.kind = "none" THEN "ENOENT" ELSE "ENOTDIR")
      ELSE IF node.kind = "none" /\ dir.fault # "" THEN fail(dir.fault)
      ELSE
        [exc |-> "",
         fs  |-> Put(f, loc.path, FileNode(content.text, content.bytes, TRUE, "")),
         io  |-> { [act |-> "write", at |-> loc.path] }]

(***************************************************************************)
(* SecureFileManager.write_file.  The outcome is [result, fs]: the         *)
(* dictionary returned and the storage left behind.                        *)
(***************************************************************************)
\* lines 184-192: write the file and build the payload
WriteContent(f, path, content, io) ==
  LET w == Only({ x : x \in {WriteText(f, path, content)} })
  IN  IF w.exc # "" THEN [result |-> Raise(w.exc, io \cup w.io), fs |-> w.fs]
      ELSE [result |->
              Ok([success   |-> TRUE,
                  size      |-> content.bytes,
                  file_info |-> GetFileInfo(w.fs, path)],
                 io \cup w.io \cup IO("stat", w.fs, path)),
            fs |-> w.fs]

\* lines 180-192, on the storage the mkdir left
WriteAfterMkdir(made, f, path, content) ==
  LET io == IO("stat", f, Parent(path)) \cup made.io
  IN  IF made.exc # "" THEN [result |-> Raise(made.exc, io), fs |-> made.fs]
      ELSE IF ~Exists(made.fs, Parent(path))
        THEN [result |-> Err("Parent directory does not exist", io),
              fs |-> made.fs]
      ELSE WriteContent(made.fs, path, content, io)

\* a write that never makes the parent directory
WriteWithParentAsFound(f, path, content, create_dirs) ==
  Only({ WriteAfterMkdir(made, f, path, content) :
         made \in { [exc |-> "", fs |-> f, io |-> {}] } })

\* lines 176-192: the parent directory, then the file
WriteWithParent(f, path, content, create_dirs) ==
  Only({ WriteAfterMkdir(made, f, path, content) :
         made \in { IF create_dirs /\ ~Exists(f, Parent(path))
                    THEN MkdirParents(f, Parent(path))
                    ELSE [exc |-> "", fs |-> f, io |-> {}] } })

\* a write that measures the content in characters
WriteFileCountingChars(dirs, f, path, content, create_dirs) ==
  IF ~IsPathAllowed(dirs, f, path)
    THEN [result |-> Err("Access denied: Path not in allowed directories", {}),
          fs |-> f]
  ELSE IF ~IsExtensionAllowed(path)
    THEN [result |-> Err("File type not allowed", {}), fs |-> f]
  ELSE IF ~content.encodable
    THEN [result |-> Raise("UnicodeEncodeError", {}), fs |-> f]
  ELSE IF content.chars > MAX_FILE_SIZE
    THEN [result |-> Err("Content too large", {}), fs |-> f]
  ELSE WriteWithParent(f, path, content, create_dirs)

\* the body of the try block
WriteFileBody(dirs, f, path, content, create_dirs) ==
  IF ~IsPathAllowed(dirs, f, path)
    THEN [result |-> Err("Access denied: Path not in allowed directories", {}),
          fs |-> f]
  ELSE IF ~IsExtensionAllowed(path)
    THEN [result |-> Err("File type not allowed", {}), fs |-> f]
  ELSE IF ~content.encodable
    THEN [result |-> Raise("UnicodeEncodeError", {}), fs |-> f]
  ELSE IF content.bytes > MAX_FILE_SIZE
    THEN [result |-> Err("Content too large", {}), fs |-> f]
  ELSE WriteWithParent(f, path, content, create_dirs)

WriteFile(dirs, f, file_path, content, create_dirs) ==
  Only({ [body EXCEPT !.result = ExceptException(@, "Failed to write file")] :
         body \in {WriteFileBody(dirs, f, file_path, content, create_dirs)} })


(***************************************************************************)
(* Strings of names and their order.                                       *)
(***************************************************************************)
\* `sub in s`
Contains(sub, s) ==
  \E i \in 1..(Len(s) - Len(sub) + 1) : SubSeq(s, i, i + Len(sub) - 1) = sub

\* code point order of the characters names are made of
Alphabet == <<"\\0", ".", "0", "1">> \o Upper \o Lower

Rank(c) == CHOOSE i \in 1..Len(Alphabet) : Alphabet[i] = c

RECURSIVE StrLess(_, _)
\* s < t on strings
StrLess(s, t) ==
  IF t = <<>> THEN FALSE
  ELSE IF s = <<>> THEN TRUE
  ELSE IF Head(s) # Head(t) THEN Rank(Head(s)) < Rank(Head(t))
  ELSE StrLess(Tail(s), Tail(t))

(***************************************************************************)
(* SecureFileManager.list_directory                                        *)
(***************************************************************************)
\* the names os.scandir yields for the directory at a canonical path
ChildNames(f, dir) ==
  { Name(p) : p \in { q \in DOMAIN f : Len(q) = Len(dir) + 1 /\ Parent(q) = dir } }

\* a set of names as a sequence in some order: the order iterdir yields
RECURSIVE SeqOf(_)
SeqOf(S) ==
  IF S = {} THEN <<>>
  ELSE LET x == CHOOSE y \in S : \A z \in S : z = y \/ StrLess(y, z)
       IN  <<x>> \o SeqOf(S \ {x})

RECURSIVE InsertByKeyAsWritten(_, _)
\* item placed by its name as it is written
InsertByKeyAsWritten(sorted, item) ==
  IF sorted = <<>> THEN <<item>>
  ELSE IF StrLess(item.name, Head(sorted).name)
    THEN <<item>> \o sorted
  ELSE <<Head(sorted)>> \o InsertByKeyAsWritten(Tail(sorted), item)

RECURSIVE InsertByKey(_, _)
\* item placed after the entries whose key is not greater (a stable sort)
InsertByKey(sorted, item) ==
  IF sorted = <<>> THEN <<item>>
  ELSE IF StrLess(ToLower(item.name), ToLower(Head(sorted).name))
    THEN <<item>> \o sorted
  ELSE <<Head(sorted)>> \o InsertByKey(Tail(sorted), item)

RECURSIVE SortByName(_)
\* items.sort(key=lambda x: x.get('name', '').lower())
SortByName(items) ==
  IF items = <<>> THEN <<>>
  ELSE InsertByKey(SortByName(SubSeq(items, 1, Len(items) - 1)),
                   items[Len(items)])

\* lines 212-229: iterate, describe, sort, count
ListItems(f, path, include_hidden) ==
  LET names == SeqOf({ n \in ChildNames(f, Locate(f, path).path) :
                         include_hidden \/ Head(n) # "." })
      infos == [i \in 1..Len(names) |-> GetFileInfo(f, Append(path, names[i]))]
      items == SortByName(infos)
      io    == IO("list", f, path) \cup
               UNION { IO("stat", f, Append(path, names[i])) : i \in 1..Len(names) }
  IN  IF StatNode(f, path).fault # ""
        THEN Raise(ErrnoClass(StatNode(f, path).fault), IO("stat", f, path))
      ELSE Ok([directory   |-> Str(path),
               items       |-> items,
               total_items |-> Len(items),
               files       |-> Cardinality({ i \in 1..Len(items) : items[i].is_file }),
               directories |-> Cardinality({ i \in 1..Len(items) : items[i].is_dir })],
              IO("stat", f, path) \cup io)

\* the body of the try block
ListDirectoryBody(dirs, f, path, include_hidden) ==
  IF ~IsPathAllowed(dirs, f, path)
    THEN Err("Access denied: Path not in allowed directories", {})
  ELSE IF ~Exists(f, path)
    THEN Err("Directory not found", IO("stat", f, path))
  ELSE IF ~IsDir(f, path)
    THEN Err("Not a directory", IO("stat", f, path))
  ELSE ListItems(f, path, include_hidden)

ListDirectory(dirs, f, dir_path, include_hidden) ==
  ExceptException(ListDirectoryBody(dirs, f, dir_path, include_hidden),
                  "Failed to list directory")

(***************************************************************************)
(* SecureFileManager.get_file_hash                                         *)
(***************************************************************************)
\* hashlib.<algorithm>(content).hexdigest(): a function of the bytes alone
Digest(algorithm, data) == <<algorithm, data>>

\* a hash taken over the name of the file and its bytes
GetFileHashNamed(dirs, f, path) ==
  LET node == StatNode(f, path)
      io   == IO("stat", f, path)
  IN  IF ~IsPathAllowed(dirs, f, path)
        THEN Err("Access denied: Path not in allowed directories", {})
      ELSE IF ~Exists(f, path) \/ ~IsFile(f, path)
        THEN Err("File not found", io)
      ELSE IF node.size > MAX_FILE_SIZE
        THEN Err("File too large for hashing", io)
      ELSE IF node.fault # ""
        THEN Raise(ErrnoClass(node.fault), io \cup IO("read", f, path))
      ELSE Ok([file   |-> Str(path),
               size   |-> node.size,
               md5    |-> Digest("md5", <<Str(path), node.data>>),
               sha1   |-> Digest("sha1", <<Str(path), node.data>>),
               sha256 |-> Digest("sha256", <<Str(path), node.data>>)],
              io \cup IO("read", f, path))

\* the body of the try block
GetFileHashBody(dirs, f, path) ==
  LET node == StatNode(f, path)
      io   == IO("stat", f, path)
  IN  IF ~IsPathAllowed(dirs, f, path)
        THEN Err("Access denied: Path not in allowed directories", {})
      ELSE IF ~Exists(f, path) \/ ~IsFile(f, path)
        THEN Err("File not found", io)
      ELSE IF node.size > MAX_FILE_SIZE
        THEN Err("File too large for hashing", io)
      ELSE IF node.fault # ""
        THEN Raise(ErrnoClass(node.fault), io \cup IO("read", f, path))
      ELSE Ok([file   |-> Str(path),
               size   |-> node.size,
               md5    |-> Digest("md5", node.data),
               sha1   |-> Digest("sha1", node.data),
               sha256 |-> Digest("sha256", node.data)],
              io \cup IO("read", f, path))

\* lines 302-311: read the bytes and digest them
HashContent(f, path) ==
  LET node == StatNode(f, path)
      io   == IO("stat", f, path) \cup IO("read", f, path)
  IN  IF node.kind = "none" THEN Raise("FileNotFoundError", io)
      ELSE IF node.kind = "dir" THEN Raise("IsADirectoryError", io)
      ELSE IF node.fault # "" THEN Raise(ErrnoClass(node.fault), io)
      ELSE Ok([file   |-> Str(path),
               size   |-> node.size,
               md5    |-> Digest("md5", node.data),
               sha1   |-> Digest("sha1", node.data),
               sha256 |-> Digest("sha256", node.data)], io)

GetFileHash(dirs, f, file_path) ==
  ExceptException(GetFileHashBody(dirs, f, file_path), "Failed to hash file")

(***************************************************************************)
(* SecureFileManager.search_files                                          *)
(***************************************************************************)
RECURSIVE RGlobPlain(_, _, _)
\* the entries below a directory, symlinks not entered
RGlobPlain(f, raw, dir) ==
  IF NodeAt(f, dir).fault # "" THEN {}
  ELSE UNION { {Append(raw, n)} \cup
               (IF NodeAt(f, Append(dir, n)).kind = "dir"
                THEN RGlobPlain(f, Append(raw, n), Append(dir, n)) ELSE {})
               : n \in ChildNames(f, dir) }

\* a traversal that enters the symlinks to directories it meets at the top
RGlobThroughLinks(f, raw, dir) ==
  RGlobPlain(f, raw, dir) \cup
  UNION { RGlobPlain(f, Append(raw, n), Locate(f, Append(raw, n)).path) :
            n \in { m \in ChildNames(f, dir) :
                      /\ NodeAt(f, Append(dir, m)).kind = "link"
                      /\ IsDir(f, Append(raw, m)) } }

RECURSIVE RGlob(_, _, _)
\* Path.rglob('*') below the directory at canonical path dir, reached as raw:
\* every entry, descending into directories but not into symlinks to
\* directories, and past a directory that cannot be read
RGlob(f, raw, dir) ==
  IF NodeAt(f, dir).fault # "" THEN {}
  ELSE UNION { {Append(raw, n)} \cup
               (IF NodeAt(f, Append(dir, n)).kind = "dir"
                THEN RGlob(f, Append(raw, n), Append(dir, n)) ELSE {})
               : n \in ChildNames(f, dir) }

RECURSIVE PathSeqOf(_)
\* the entries as a sequence, in the order the traversal yields them
PathSeqOf(S) ==
  IF S = {} THEN <<>>
  ELSE LET x == CHOOSE y \in S : \A z \in S : z = y \/ StrLess(Str(y), Str(z))
       IN  <<x>> \o PathSeqOf(S \ {x})

RECURSIVE Strip(_)
\* str.strip()
Strip(s) ==
  IF s = <<>> THEN s
  ELSE IF Head(s) = " " THEN Strip(Tail(s))
  ELSE IF s[Len(s)] = " " THEN Strip(SubSeq(s, 1, Len(s) - 1))
  ELSE s

\* a slice that keeps every element
TakeAll(s, n) == s

\* the first n elements, s[:n]
Take(s, n) == SubSeq(s, 1, IF Len(s) < n THEN Len(s) ELSE n)

RECURSIVE MatchingLines(_, _, _)
\* lines 266-270: the (line number, stripped text) of the lines holding the
\* pattern, numbered from i
MatchingLines(lines, pattern, i) ==
  IF lines = <<>> THEN <<>>
  ELSE (IF Contains(ToLower(pattern), ToLower(Head(lines)))
        THEN << [line |-> i, text |-> Strip(Head(lines))] >> ELSE <<>>)
       \o MatchingLines(Tail(lines), pattern, i + 1)

\* the match for one entry, its content scanned whatever its extension
SearchMatchAnyExtension(f, item, pattern, include_content) ==
  LET node  == StatNode(f, item)
      info  == GetFileInfo(f, item)
      lines == TextLines(node.data)
      plain == [info |-> info, match_type |-> "filename",
                matching_lines |-> <<>>, exc |-> "",
                io |-> IO("stat", f, item)]
  IN  IF ~(include_content /\ IsFile(f, item))
        THEN plain
      ELSE IF node.size > MAX_FILE_SIZE THEN plain
      ELSE IF node.fault \notin {"", "EACCES"}
        THEN [plain EXCEPT !.exc = ErrnoClass(node.fault),
                           !.io = @ \cup IO("read", f, item)]
      ELSE IF node.fault = "EACCES" \/ ~node.utf8
        THEN [plain EXCEPT !.io = @ \cup IO("read", f, item)]
      ELSE IF Contains(ToLower(pattern), ToLower(JoinLines(lines)))
        THEN [plain EXCEPT !.match_type = "content",
                           !.matching_lines =
                              Take(MatchingLines(lines, pattern, 1), 10),
                           !.io = @ \cup IO("read", f, item)]
      ELSE [plain EXCEPT !.io = @ \cup IO("read", f, item)]

\* lines 255-275 for one entry whose name holds the pattern: the match and
\* the exception that leaves the loop, if any
SearchMatch(f, item, pattern, include_content) ==
  LET node  == StatNode(f, item)
      info  == GetFileInfo(f, item)
      lines == TextLines(node.data)
      plain == [info |-> info, match_type |-> "filename",
                matching_lines |-> <<>>, exc |-> "",
                io |-> IO("stat", f, item)]
  IN  IF ~(include_content /\ IsFile(f, item) /\ IsExtensionAllowed(item))
        THEN plain
      ELSE IF node.size > MAX_FILE_SIZE THEN plain
      ELSE IF node.fault \notin {"", "EACCES"}
        THEN [plain EXCEPT !.exc = ErrnoClass(node.fault),
                           !.io = @ \cup IO("read", f, item)]
      ELSE IF node.fault = "EACCES" \/ ~node.utf8
        THEN [plain EXCEPT !.io = @ \cup IO("read", f, item)]
      ELSE IF Contains(ToLower(pattern), ToLower(JoinLines(lines)))
        THEN [plain EXCEPT !.match_type = "content",
                           !.matching_lines =
                              Take(MatchingLines(lines, pattern, 1), 10),
                           !.io = @ \cup IO("read", f, item)]
      ELSE [plain EXCEPT !.io = @ \cup IO("read", f, item)]

\* the loop over the entries, with names compared as they are written
SearchMatchesAsWritten(dirs, f, path, pattern, include_content) ==
  LET items == PathSeqOf(RGlob(f, path, Locate(f, path).path))
      hit(i) == /\ IsPathAllowed(dirs, f, items[i])
                /\ Contains(pattern, Name(items[i]))
      found  == SelectSeq([i \in 1..Len(items) |-> i], hit)
      matches == [k \in 1..Len(found) |->
                    SearchMatch(f, items[found[k]], pattern, include_content)]
      io == IO("stat", f, path) \cup IO("list", f, path)
              \cup UNION { matches[k].io : k \in 1..Len(matches) }
  IN  IF \E k \in 1..Len(matches) : matches[k].exc # ""
        THEN Raise(matches[CHOOSE k \in 1..Len(matches) : matches[k].exc # ""].exc, io)
      ELSE
      Ok([search_directory |-> Str(path),
          pattern          |-> pattern,
          matches          |-> matches,
          total_matches    |-> Len(matches)], io)

\* lines 246-282: the loop over the entries
SearchMatches(dirs, f, path, pattern, include_content) ==
  LET items == PathSeqOf(RGlob(f, path, Locate(f, path).path))
      hit(i) == /\ IsPathAllowed(dirs, f, items[i])
                /\ Contains(ToLower(pattern), ToLower(Name(items[i])))
      found  == SelectSeq([i \in 1..Len(items) |-> i], hit)
      matches == [k \in 1..Len(found) |->
                    SearchMatch(f, items[found[k]], pattern, include_content)]
      io == IO("stat", f, path) \cup IO("list", f, path)
              \cup UNION { matches[k].io : k \in 1..Len(matches) }
  IN  IF \E k \in 1..Len(matches) : matches[k].exc # ""
        THEN Raise(matches[CHOOSE k \in 1..Len(matches) : matches[k].exc # ""].exc, io)
      ELSE
      Ok([search_directory |-> Str(path),
          pattern          |-> pattern,
          matches          |-> matches,
          total_matches    |-> Len(matches)], io)

\* the body of the try block
SearchFilesBody(dirs, f, path, pattern, include_content) ==
  IF ~IsPathAllowed(dirs, f, path)
    THEN Err("Access denied: Path not in allowed directories", {})
  ELSE IF ~Exists(f, path) \/ ~IsDir(f, path)
    THEN Err("Invalid search directory", IO("stat", f, path))
  ELSE SearchMatches(dirs, f, path, pattern, include_content)

SearchFiles(dirs, f, search_dir, pattern, include_content) ==
  ExceptException(SearchFilesBody(dirs, f, search_dir, pattern, include_content),
                  "Failed to search files")

(***************************************************************************)
(* The tool handlers.  A handler returns a CallToolResult, modelled as the *)
(* manager result it renders: kind = "error" is isError = True.            *)
(***************************************************************************)
\* handle_get_file_info, the body of its try block
GetFileInfoBody(dirs, f, path) ==
  LET info == GetFileInfo(f, path)
  IN  IF ~IsPathAllowed(dirs, f, path)
        THEN Err("Error: Access denied - path not in allowed directories", {})
      ELSE IF ~Exists(f, path)
        THEN Err("Error: File not found", IO("stat", f, path))
      ELSE IF info.error # ""
        THEN Err("Error getting file info", IO("stat", f, path))
      ELSE Ok([file_info |-> info], IO("stat", f, path))

HandleGetFileInfo(dirs, f, file_path) ==
  ExceptException(GetFileInfoBody(dirs, f, file_path), "Error")

\* response formatting: indexing a key the dictionary lacks raises KeyError
\* (a file_info, list item or match that is {"error": ...} has no 'modified',
\* 'name' or 'path')
Render(tool, result) ==
  LET broken ==
        CASE tool \in {"read_file", "write_file"} ->
               result.payload.file_info.error # ""
          [] tool = "list_directory" ->
               \E i \in 1..Len(result.payload.items) :
                  result.payload.items[i].error # ""
          [] tool = "search_files" ->
               \E i \in 1..Len(result.payload.matches) :
                  result.payload.matches[i].info.error # ""
          [] OTHER -> FALSE
  IN  IF result.kind = "ok" /\ broken THEN Raise("KeyError", result.io)
      ELSE result

ToolNames == { "read_file", "write_file", "list_directory", "search_files",
               "get_file_info", "get_file_hash" }

\* handle_call_tool around the handler's outcome: an unknown name raises
\* ValueError, a missing required argument KeyError, and every Exception
\* becomes an error result
HandleCallTool(name, has_arguments, result) ==
  ExceptException(
    IF name \notin ToolNames THEN Raise("ValueError", {})
    ELSE IF ~has_arguments THEN Raise("KeyError", {})
    ELSE Render(name, result),
    "Error")


(***************************************************************************)
(* The storage the engine starts on, and the requests made of it.          *)
(***************************************************************************)
\* the storage holding the given (path, node) pairs
Storage(S) == [p \in { x[1] : x \in S } |-> (CHOOSE x \in S : x[1] = p)[2]]

\* /a/b and /w are the allowed roots; /a/bc is a sibling whose name extends
\* "b"; /a/x is unrelated; /a/b/l links out of the root and /a/x/k into it
Tree(inside, outside) ==
  Storage({ << <<>>, DirNode("") >>,
            << <<N_a>>, DirNode("") >>,
            << <<N_w>>, DirNode("") >>,
            << <<N_a, N_b>>, DirNode("") >>,
            << <<N_a, N_b, N_md>>, inside >>,
            << <<N_a, N_b, N_SH>>, FileNode("two", 2, TRUE, "") >>,
            << <<N_a, N_b, N_h>>, FileNode("one", 1, TRUE, "") >>,
            << <<N_a, N_b, N_l>>, LinkNode(<<N_a, N_x>>) >>,
            << <<N_a, N_bc>>, DirNode("") >>,
            << <<N_a, N_x>>, DirNode("") >>,
            << <<N_a, N_x, N_k>>, LinkNode(<<N_a, N_b>>) >> }
          \cup (IF outside.kind = "none" THEN {}
                ELSE { << <<N_a, N_bc, N_md>>, outside >>,
                       << <<N_a, N_x, N_md>>, outside >> }))

InsideFiles ==
  { FileNode("one", 1, TRUE, ""),
    FileNode("note", 5, TRUE, ""),
    FileNode("edge", MAX_FILE_SIZE, TRUE, ""),
    FileNode("huge", MAX_FILE_SIZE + 1, TRUE, ""),
    FileNode("bin", 2, FALSE, ""),
    FileNode("note", 5, TRUE, "EACCES"),
    FileNode("note", 5, TRUE, "EIO"),
    FileNode("many", 23, TRUE, "") }

OutsideFiles == { NoNode, FileNode("note", 5, TRUE, "") }

RawPaths ==
  { <<N_a, N_b, N_md>>,                  \* a file in the root
    <<N_a, N_b, N_SH>>,                  \* a script in the root
    <<N_a, N_b>>,                        \* the root
    <<N_a, N_b, N_d, N_md>>,             \* below a directory that is missing
    <<N_a, N_b, N_q>>,                   \* missing, in the root
    <<N_a, N_b, N_qSH>>,                 \* missing, a script
    <<N_a, N_b, N_md, N_q>>,             \* below a file
    <<N_w, N_md>>,                       \* missing, in the second root
    <<N_a, N_bc, N_md>>,                 \* in the sibling
    <<N_a, N_bc>>,                       \* the sibling
    <<N_a, N_x, N_md>>,                  \* outside
    <<N_a, N_x>>,                        \* a directory outside
    <<N_a, N_b, DotDot, N_x, N_md>>,     \* out of the root by ".."
    <<N_a, N_b, DotDot, N_bc, N_md>>,    \* into the sibling by ".."
    <<N_a, N_x, DotDot, N_b, N_md>>,     \* into the root by ".."
    <<N_a, N_b, N_l, N_md>>,             \* out of the root by a symlink
    <<N_a, N_x, N_k, N_md>>,             \* into the root by a symlink
    <<N_a, NulName>> }                   \* cannot be resolved

\* the max_size argument: absent, or an integer
MaxSizes == { <<>>, <<0>>, <<1>>, <<MAX_FILE_SIZE + 2>> }

\* the content argument: the text, its length in characters and in UTF-8
\* bytes, and whether it can be encoded (a lone surrogate cannot)
Contents ==
  { [text |-> "data", chars |-> 2, bytes |-> 2, encodable |-> TRUE],
    [text |-> "cr", chars |-> 3, bytes |-> 3, encodable |-> TRUE],
    [text |-> "edge", chars |-> MAX_FILE_SIZE, bytes |-> MAX_FILE_SIZE,
     encodable |-> TRUE],
    [text |-> "wide", chars |-> MAX_FILE_SIZE, bytes |-> 2 * MAX_FILE_SIZE,
     encodable |-> TRUE],
    [text |-> "lone", chars |-> 1, bytes |-> 0, encodable |-> FALSE] }

Patterns == { <<"N">>, <<"h","i">> }

NoContent == [text |-> "", chars |-> 0, bytes |-> 0, encodable |-> TRUE]

NoArgs ==
  [path |-> <<>>, max_size |-> <<>>, content |-> NoContent,
   create_dirs |-> FALSE, include_hidden |-> FALSE,
   pattern |-> <<>>, include_content |-> FALSE]

NoResult == Err("", {})

\* a call between its checks and its access to the file: the size its stat
\* returned and the canonical path its policy check saw
NoFlight == [stage |-> "none", size |-> 0, at |-> <<>>]

(***************************************************************************)
(* The weather service of src/src/weather_service/__init__.py: the cache   *)
(* of _make_api_request.  Time is counted in minutes; clock is the reading *)
(* of datetime.now(), the local wall clock, and elapsed the time that has  *)
(* passed since the process started.                                       *)
(***************************************************************************)
CACHE_DURATION == 10

\* minutes between two looks at the clock
TickMinutes == 5
\* the minutes a behaviour lasts
MaxElapsed == 15
\* calls of _make_api_request that wait for the network at one time
MaxCalls == 2
\* the minutes the local clock is set back at the end of daylight saving time
DstShift == 60

\* the endpoint and the params dictionary of the get_* methods (lines 126-144)
WeatherRequests ==
  { [endpoint |-> "weather",  params |-> [q |-> "L", units |-> "metric"]],
    [endpoint |-> "weather",  params |-> [q |-> "M", units |-> "metric"]],
    [endpoint |-> "forecast", params |-> [q |-> "L", units |-> "metric"]] }

\* sorted(params.items())
SortedItems(params) == << <<"q", params.q>>, <<"units", params.units>> >>

\* the strings the model hashes, and hash(str(...)) of the sorted items:
\* the strings of the model have hashes that differ
HashedStrings ==
  << SortedItems([q |-> "L", units |-> "metric"]),
     SortedItems([q |-> "M", units |-> "metric"]) >>

HashOfStr(items) ==
  CHOOSE h \in 1..Len(HashedStrings) : HashedStrings[h] = items

\* WeatherService._cache_key
CacheKey(endpoint, params) == <<endpoint, HashOfStr(SortedItems(params))>>

CacheKeys == { CacheKey(r.endpoint, r.params) : r \in WeatherRequests }

\* WeatherService._is_cache_valid, at the clock reading now
IsCacheValid(now, timestamp) == now - timestamp < CACHE_DURATION

\* no entry under a key, and no response yet
NoEntry == [held |-> FALSE, data |-> <<>>, timestamp |-> 0, stored |-> 0]

NoResponse == [request |-> <<>>, from_cache |-> FALSE, data |-> <<>>,
               error |-> "", age |-> 0]

\* weather_cache = {} and the clocks at the start of the process
WeatherInit ==
  /\ weather_cache = [k \in CacheKeys |-> NoEntry]
  /\ clock = 0
  /\ elapsed = 0
  /\ calls = {}
  /\ served = NoResponse

Init ==
  /\ \E inside \in InsideFiles, outside \in OutsideFiles :
        /\ outside.kind = "none" \/ inside.data = "one"
        /\ fs = Tree(inside, outside)
  /\ allowed_dirs = InitAllowedDirs(fs)
  /\ last = [tool |-> "none", args |-> NoArgs, pre |-> fs,
             result |-> NoResult, reply |-> NoResult]
  /\ writes = 0
  /\ flight = NoFlight
  /\ WeatherInit

Idle == last.tool = "none"

\* one call of a tool that leaves the storage alone
Called(tool, args, result) ==
  /\ Idle
  /\ \E r \in {result} :
       last' = [tool |-> tool, args |-> args, pre |-> fs, result |-> r,
                reply |-> HandleCallTool(tool, TRUE, r)]
  /\ UNCHANGED <<fs, allowed_dirs, writes, flight, wvars>>

CallReadFile ==
  Idle /\ \E path \in RawPaths, max_size \in MaxSizes :
    Called("read_file", [NoArgs EXCEPT !.path = path, !.max_size = max_size],
           ReadFile(allowed_dirs, fs, path, max_size))

CallWriteFile ==
  Idle /\ \E path \in RawPaths, content \in Contents, create_dirs \in BOOLEAN :
    \E out \in {WriteFile(allowed_dirs, fs, path, content, create_dirs)} :
        /\ out.fs = fs \/ writes < MaxWrites
        /\ fs' = out.fs
        /\ writes' = IF out.fs = fs THEN writes ELSE writes + 1
        /\ last' = [tool |-> "write_file",
                    args |-> [NoArgs EXCEPT !.path = path,
                                            !.content = content,
                                            !.create_dirs = create_dirs],
                    pre |-> fs, result |-> out.result,
                    reply |-> HandleCallTool("write_file", TRUE, out.result)]
        /\ UNCHANGED <<allowed_dirs, flight, wvars>>

CallListDirectory ==
  Idle /\ \E path \in RawPaths, include_hidden \in BOOLEAN :
    Called("list_directory",
           [NoArgs EXCEPT !.path = path, !.include_hidden = include_hidden],
           ListDirectory(allowed_dirs, fs, path, include_hidden))

CallSearchFiles ==
  Idle /\ \E path \in RawPaths, pattern \in Patterns, include_content \in BOOLEAN :
    Called("search_files",
           [NoArgs EXCEPT !.path = path, !.pattern = pattern,
                          !.include_content = include_content],
           SearchFiles(allowed_dirs, fs, path, pattern, include_content))

CallGetFileInfo ==
  Idle /\ \E path \in RawPaths :
    Called("get_file_info", [NoArgs EXCEPT !.path = path],
           HandleGetFileInfo(allowed_dirs, fs, path))

CallGetFileHash ==
  Idle /\ \E path \in RawPaths :
    Called("get_file_hash", [NoArgs EXCEPT !.path = path],
           GetFileHash(allowed_dirs, fs, path))

\* a name that is no tool, or a call without its required arguments
CallMalformed ==
  Idle /\ \E name \in ToolNames \cup {"no_such_tool"} :
    /\ Idle
    /\ last' = [tool |-> name, args |-> NoArgs, pre |-> fs,
                result |-> NoResult,
                reply |-> HandleCallTool(name, FALSE, NoResult)]
    /\ UNCHANGED <<fs, allowed_dirs, writes, flight, wvars>>

\* the CallToolResult goes back to the client; the server takes the next
\* request
\* a server that takes the directory of the last request as a root
RespondAddingRoot ==
  /\ ~Idle
  /\ flight.stage # "checked"
  /\ last' = [tool |-> "none", args |-> NoArgs, pre |-> fs,
              result |-> NoResult, reply |-> NoResult]
  /\ flight' = NoFlight
  /\ allowed_dirs' = allowed_dirs \cup {Str(Parent(last.args.path))}
  /\ UNCHANGED <<fs, writes, wvars>>

Respond ==
  /\ ~Idle
  /\ flight.stage # "checked"
  /\ last' = [tool |-> "none", args |-> NoArgs, pre |-> fs,
              result |-> NoResult, reply |-> NoResult]
  /\ flight' = NoFlight
  /\ UNCHANGED <<fs, allowed_dirs, writes, wvars>>

Next ==
  \/ Respond
  \/ CallReadFile
  \/ CallWriteFile
  \/ CallListDirectory
  \/ CallSearchFiles
  \/ CallGetFileInfo
  \/ CallGetFileHash
  \/ CallMalformed

Spec == Init /\ [][Next]_vars

(***************************************************************************)
(* Calls that meet other actors.  read_file and get_file_hash test the     *)
(* path and stat the file, and open it afterwards by the path passed;      *)
(* between the two another caller may write the file and another process   *)
(* may re-point a symlink the path goes through.                           *)
(***************************************************************************)
RacePaths ==
  { <<N_a, N_b, N_md>>, <<N_a, N_x, N_k, N_md>>,
    <<N_a, N_b, N_q>>, <<N_a, N_x, N_md>> }

\* lines 123-139 of read_file, lines 293-300 of get_file_hash: every check
\* passes
Checked(tool, dirs, f, path, max_size) ==
  /\ IsPathAllowed(dirs, f, path)
  /\ Exists(f, path)
  /\ IsFile(f, path)
  /\ tool = "read_file" => IsExtensionAllowed(path)
  /\ StatNode(f, path).size
       <= (IF tool = "read_file" THEN ReadSizeLimit(max_size) ELSE MAX_FILE_SIZE)

\* the call runs up to the end of its checks; a check that fails ends it
BeginCall ==
  /\ Idle /\ flight.stage = "none"
  /\ \E tool \in {"read_file", "get_file_hash"}, path \in RacePaths,
        max_size \in MaxSizes :
       /\ tool = "get_file_hash" => max_size = <<>>
       /\ \E now \in { IF tool = "read_file"
                        THEN ReadFile(allowed_dirs, fs, path, max_size)
                        ELSE GetFileHash(allowed_dirs, fs, path) } :
            IF Checked(tool, allowed_dirs, fs, path, max_size)
            THEN /\ last' = [tool |-> tool,
                             args |-> [NoArgs EXCEPT !.path = path,
                                                     !.max_size = max_size],
                             pre |-> fs, result |-> NoResult,
                             reply |-> NoResult]
                 /\ flight' = [stage |-> "checked",
                               size  |-> StatNode(fs, path).size,
                               at    |-> Resolve(fs, path).path]
            ELSE /\ last' = [tool |-> tool,
                             args |-> [NoArgs EXCEPT !.path = path,
                                                     !.max_size = max_size],
                             pre |-> fs, result |-> now,
                             reply |-> HandleCallTool(tool, TRUE, now)]
                 /\ flight' = flight
  /\ UNCHANGED <<fs, allowed_dirs, writes, wvars>>

\* another process points the symlink /a/x/k at its own directory
Repoint ==
  /\ flight.stage = "checked"
  /\ NodeAt(fs, <<N_a, N_x, N_k>>) = LinkNode(<<N_a, N_b>>)
  /\ fs' = Put(fs, <<N_a, N_x, N_k>>, LinkNode(<<N_a, N_x>>))
  /\ UNCHANGED <<allowed_dirs, last, writes, flight, wvars>>

\* another caller writes the file the call in flight was asked for
OtherWrite ==
  /\ flight.stage = "checked" /\ writes < MaxWrites
  /\ \E content \in Contents :
       \E out \in {WriteFile(allowed_dirs, fs, last.args.path, content, FALSE)} :
          /\ out.fs # fs
          /\ fs' = out.fs
  /\ writes' = writes + 1
  /\ UNCHANGED <<allowed_dirs, last, flight, wvars>>

\* lines 141-156 of read_file, lines 302-311 of get_file_hash, on the
\* storage as it is now
FinishCall ==
  /\ flight.stage = "checked"
  /\ \E r \in { IF last.tool = "read_file"
                 THEN ExceptException(
                        ReadContent(fs, last.args.path, flight.size),
                        "Failed to read file")
                 ELSE ExceptException(HashContent(fs, last.args.path),
                                      "Failed to hash file") } :
       last' = [last EXCEPT !.result = r,
                            !.reply = HandleCallTool(last.tool, TRUE, r)]
  /\ flight' = [flight EXCEPT !.stage = "done"]
  /\ UNCHANGED <<fs, allowed_dirs, writes, wvars>>

NextRace ==
  \/ BeginCall
  \/ Repoint
  \/ OtherWrite
  \/ FinishCall
  \/ Respond

SpecRace == Init /\ [][NextRace]_vars

(***************************************************************************)
(* Properties of the sandbox.  The containment relation below is the one   *)
(* the specification asks for: a canonical path is inside a root when the  *)
(* root is the path itself or one of its ancestors.                        *)
(***************************************************************************)
CanonicalInside(dirs, f, raw) ==
  LET resolved_path == Resolve(f, raw)
  IN  /\ resolved_path.ok
      /\ \E n \in 0..Len(resolved_path.path) :
            Str(SubSeq(resolved_path.path, 1, n)) \in dirs

\* the last request named a path (every well-formed call of a tool does)
OnPath == last.tool \in ToolNames /\ last.args.path # <<>>

AccessDeniedMessages ==
  { "Access denied: Path not in allowed directories",
    "Error: Access denied - path not in allowed directories" }

AccessDenied(result) ==
  result.kind = "error" /\ result.error \in AccessDeniedMessages

\* C1 (Containment): a call of read, write, list, search, getInfo or hash on
\* a path whose canonical form lies outside every allowed root returns
\* AccessDenied, touches no file, metadata or listing, and leaves the storage
\* as it was.
C1_Containment ==
  (OnPath /\ ~CanonicalInside(allowed_dirs, last.pre, last.args.path))
    => /\ AccessDenied(last.result)
       /\ last.result.io = {}
       /\ fs = last.pre

\* C2 (Boundary precision): the path check is directory-boundary aware: a
\* path is allowed iff its canonical form equals an allowed root or has an
\* allowed root followed by a separator as a prefix, so with root /a/b the
\* sibling /a/bc and everything under it are refused.
C2_BoundaryPrecision ==
  \A p \in RawPaths :
     IsPathAllowed(allowed_dirs, fs, p) <=> CanonicalInside(allowed_dirs, fs, p)

\* a raw path that reaches its target through '..' or through a symlink
Indirect(f, raw) ==
  \/ \E i \in 1..Len(raw) : raw[i] = DotDot
  \/ (Resolve(f, raw).ok /\ Resolve(f, raw).path # raw)

\* C3 (Traversal immunity): a raw path with '..' segments or symlink
\* components is permitted when its resolved target is inside an allowed root
\* and refused with AccessDenied when the target is outside every root, also
\* when the raw string begins with a root.
C3_TraversalImmunity ==
  (OnPath /\ Indirect(last.pre, last.args.path))
    => (AccessDenied(last.result)
          <=> ~CanonicalInside(allowed_dirs, last.pre, last.args.path))

\* the last request named a regular file that passes the path check and whose
\* content can be read
ReadableFile ==
  /\ OnPath
  /\ IsPathAllowed(allowed_dirs, last.pre, last.args.path)
  /\ IsFile(last.pre, last.args.path)
  /\ StatNode(last.pre, last.args.path).fault = ""

\* the limit in force for a read: the override when one is supplied
LimitInForce(max_size) == IF max_size = <<>> THEN MAX_FILE_SIZE ELSE max_size[1]

TooLarge(result) ==
  /\ result.kind = "error"
  /\ result.error \in { "File too large", "File too large for hashing" }

\* C4 (Size enforcement): read and hash of an allowed, existing,
\* extension-permitted file return TooLarge when the file is larger than the
\* limit in force and succeed when it is not; for read the limit in force is
\* the per-call override whenever one is supplied (0 and 1 included),
\* otherwise the default limit.
C4_SizeEnforcement ==
  /\ (ReadableFile /\ last.tool = "read_file"
        /\ IsExtensionAllowed(last.args.path))
      => LET file_size == StatNode(last.pre, last.args.path).size
         IN  IF file_size > LimitInForce(last.args.max_size)
             THEN TooLarge(last.result)
             ELSE last.result.kind = "ok"
  /\ (ReadableFile /\ last.tool = "get_file_hash")
      => LET file_size == StatNode(last.pre, last.args.path).size
         IN  IF file_size > MAX_FILE_SIZE
             THEN TooLarge(last.result)
             ELSE last.result.kind = "ok"

\* C5 (Hard ceiling): no override raises the read limit above MAX_FILE_SIZE:
\* the effective limit is at most the ceiling, and a read of a file larger
\* than the ceiling returns TooLarge whatever the override.
C5_HardCeiling ==
  /\ \A max_size \in MaxSizes : ReadSizeLimit(max_size) <= MAX_FILE_SIZE
  /\ (ReadableFile /\ last.tool = "read_file"
        /\ IsExtensionAllowed(last.args.path)
        /\ StatNode(last.pre, last.args.path).size > MAX_FILE_SIZE)
      => TooLarge(last.result)

\* the storage states a request can meet
Storages == { Tree(inside, outside) : inside \in InsideFiles,
                                      outside \in OutsideFiles }

\* the result of a tool on storage f
Operate(tool, dirs, f, args) ==
  CASE tool = "read_file" -> ReadFile(dirs, f, args.path, args.max_size)
    [] tool = "write_file" ->
         WriteFile(dirs, f, args.path, args.content, args.create_dirs).result
    [] tool = "list_directory" ->
         ListDirectory(dirs, f, args.path, args.include_hidden)
    [] tool = "search_files" ->
         SearchFiles(dirs, f, args.path, args.pattern, args.include_content)
    [] tool = "get_file_info" -> HandleGetFileInfo(dirs, f, args.path)
    [] OTHER -> GetFileHash(dirs, f, args.path)

\* C7 (No existence leak): a path outside every allowed root gets the same
\* AccessDenied result in any two storage states in which it is outside,
\* whether or not it exists there and whatever its type, extension or size.
C7_NoExistenceLeak ==
  (OnPath /\ ~CanonicalInside(allowed_dirs, last.pre, last.args.path))
    => \A other \in Storages :
         ~CanonicalInside(allowed_dirs, other, last.args.path)
           => LET there == Operate(last.tool, allowed_dirs, other, last.args)
              IN  /\ there.kind = last.result.kind
                  /\ there.error = last.result.error
                  /\ AccessDenied(there)

\* the policy the specification states for an extension check
ExtensionPolicy(file_path, dangerous, allowed) ==
  /\ ToLower(Suffix(file_path)) \notin dangerous
  /\ (allowed = {} \/ ToLower(Suffix(file_path)) \in allowed)

\* deny-lists and allow-lists: the configured ones, and every list over a few
\* suffixes, so that empty, overlapping and upper-case lists occur
ExtensionLists ==
  { DANGEROUS_EXTENSIONS, ALLOWED_EXTENSIONS }
    \cup SUBSET { <<".","s","h">>, <<".","m","d">>, <<".","S","H">> }

\* the check agrees with the policy on every path and every pair of lists
ExtensionCheckIsPolicy ==
  \A file_path \in RawPaths :
    \A dangerous \in ExtensionLists, allowed \in ExtensionLists :
       ExtensionAllowedIn(file_path, dangerous, allowed)
         <=> ExtensionPolicy(file_path, dangerous, allowed)

\* C6 (Extension policy): the extension check is true iff the lower-cased
\* suffix is not in the deny-list and the allow-list is empty or holds the
\* suffix; a suffix in both lists is denied and '.SH' is treated as '.sh'.
\* Read and write report ExtensionDenied exactly when the policy refuses the
\* path under the configured lists.
C6_ExtensionPolicy ==
  /\ ExtensionCheckIsPolicy
  /\ (last.tool = "write_file"
        /\ IsPathAllowed(allowed_dirs, last.pre, last.args.path))
      => (last.result.error = "File type not allowed"
            <=> ~ExtensionPolicy(last.args.path, DANGEROUS_EXTENSIONS,
                                 ALLOWED_EXTENSIONS))
  /\ (last.tool = "read_file" /\ ReadableFile)
      => (last.result.error = "File type not allowed"
            <=> ~ExtensionPolicy(last.args.path, DANGEROUS_EXTENSIONS,
                                 ALLOWED_EXTENSIONS))

\* a write to n.SH in an allowed directory is refused for its extension
C6_Witness ==
  /\ last.tool = "write_file"
  /\ last.args.path = <<N_a, N_b, N_SH>>
  /\ Suffix(last.args.path) = <<".","S","H">>
  /\ last.result.error = "File type not allowed"

\* the index of the first FALSE in a sequence of checks, 0 when all hold
FirstViolated(checks) ==
  IF \A i \in 1..Len(checks) : checks[i] THEN 0
  ELSE CHOOSE i \in 1..Len(checks) :
         ~checks[i] /\ \A j \in 1..(i - 1) : checks[j]

ReadFailures ==
  << "Access denied: Path not in allowed directories", "File not found",
     "Not a file", "File type not allowed", "File too large" >>

\* the preconditions of read, each evaluated on its own
ReadChecks(dirs, f, path, max_size) ==
  << IsPathAllowed(dirs, f, path),
     Exists(f, path),
     IsFile(f, path),
     IsExtensionAllowed(path),
     StatNode(f, path).size <= ReadSizeLimit(max_size) >>

\* C8 (read precondition order): read checks path-allowed, exists, is-file,
\* extension-allowed, size <= limit in this order and fails on the first one
\* violated: a request violating several returns the failure of the earliest,
\* and read succeeds only when all of them hold.
C8_ReadOrder ==
  last.tool = "read_file" /\ OnPath
    => LET first == FirstViolated(ReadChecks(allowed_dirs, last.pre,
                                             last.args.path, last.args.max_size))
       IN  IF first = 0
           THEN \A i \in 1..Len(ReadFailures) :
                   last.result.error # ReadFailures[i]
           ELSE /\ last.result.kind = "error"
                /\ last.result.error = ReadFailures[first]

\* a read of n.SH (2 bytes) under a limit of 1 byte violates the extension
\* and the size precondition, and reports the extension
C8_Witness ==
  /\ last.tool = "read_file"
  /\ last.args.path = <<N_a, N_b, N_SH>>
  /\ last.args.max_size = <<1>>
  /\ StatNode(last.pre, last.args.path).size > 1
  /\ last.result.error = "File type not allowed"

WriteFailures ==
  << "Access denied: Path not in allowed directories",
     "File type not allowed", "Content too large",
     "Parent directory does not exist" >>

\* the preconditions of write, each evaluated on its own
WriteChecks(dirs, f, path, content, create_dirs) ==
  << IsPathAllowed(dirs, f, path),
     IsExtensionAllowed(path),
     content.bytes <= MAX_FILE_SIZE,
     create_dirs \/ Exists(f, Parent(path)) >>

Changes(io) == { a \in io : a.act # "stat" }

\* C9 (write precondition order): write checks path-allowed,
\* extension-allowed, UTF-8 byte length of the content <= limit, parent
\* exists (or is created when asked) in this order and fails on the first one
\* violated; no directory is created and nothing is written before the
\* earlier checks have passed.
C9_WriteOrder ==
  last.tool = "write_file" /\ OnPath
    => LET first == FirstViolated(WriteChecks(allowed_dirs, last.pre,
                                    last.args.path, last.args.content,
                                    last.args.create_dirs))
       IN  /\ (first # 0 /\ (last.args.content.encodable \/ first < 3))
                => /\ last.result.kind = "error"
                   /\ last.result.error = WriteFailures[first]
           /\ first # 0
                => /\ fs = last.pre
                   /\ Changes(last.result.io) = {}
           /\ first \in 1..3 => last.result.io = {}
           /\ (first = 0 /\ last.args.content.encodable)
                => \A i \in 1..Len(WriteFailures) :
                      last.result.error # WriteFailures[i]
           /\ ~last.args.content.encodable
                => (last.result.kind = "error" /\ fs = last.pre
                      /\ last.result.io = {})

\* content of MAX_FILE_SIZE characters and twice as many bytes, for a file
\* whose parent is missing: the size is reported, and no directory is made
C9_Witness ==
  /\ last.tool = "write_file"
  /\ last.args.path = <<N_a, N_b, N_d, N_md>>
  /\ last.args.create_dirs
  /\ last.args.content.chars <= MAX_FILE_SIZE
  /\ last.args.content.bytes > MAX_FILE_SIZE
  /\ ~Exists(last.pre, Parent(last.args.path))
  /\ last.result.error = "Content too large"
  /\ fs = last.pre

\* C10 (Typed failures only): every operation and the dispatcher, on every
\* input and storage fault, return a success payload or an error result; no
\* exception leaves the operation or handle_call_tool.
C10_TypedFailures ==
  /\ last.result.kind \in {"ok", "error"}
  /\ last.reply.kind \in {"ok", "error"}
  /\ last.result.exc = "" /\ last.reply.exc = ""

\* a device error while the file is read comes back as an error result
C10_Witness ==
  /\ last.tool = "read_file"
  /\ StatNode(last.pre, last.args.path).fault = "EIO"
  /\ last.result.kind = "error"
  /\ last.result.error = "Failed to read file"
  /\ last.reply.kind = "error"

\* C11 (Write/read round trip): after a successful write(P, c) without
\* createDirs, an immediately following read(P) succeeds and returns content
\* equal to c, as text, with size equal to the byte length of c; the last
\* successful write is the one read.
C11_RoundTrip ==
  (last.tool = "write_file" /\ last.result.kind = "ok"
     /\ ~last.args.create_dirs)
    => LET read == ReadFile(allowed_dirs, fs, last.args.path, <<>>)
       IN  /\ read.kind = "ok"
           /\ read.payload.content_type = "text"
           /\ read.payload.content = Chars(last.args.content.text)
           /\ read.payload.size = last.args.content.bytes

\* the descendants of a search root whose content a content search looks at:
\* regular files that pass the path, extension and size checks and whose
\* bytes can be read as text
Searchable(dirs, f, root) ==
  { item \in RGlob(f, root, Locate(f, root).path) :
      /\ IsPathAllowed(dirs, f, item)
      /\ IsFile(f, item)
      /\ IsExtensionAllowed(item)
      /\ StatNode(f, item).size <= MAX_FILE_SIZE
      /\ StatNode(f, item).utf8
      /\ StatNode(f, item).fault = "" }

\* the text of the file at item holds the pattern, in any case
HoldsPattern(f, item, pattern) ==
  Contains(ToLower(pattern), ToLower(ReadText(StatNode(f, item).data)))

\* C12 (Content search): search(root, pattern, includeContent=true) returns
\* a match of kind 'content', with the (line number, line text) pairs of its
\* matching lines, for every descendant file that passes the path, extension
\* and size checks and whose text holds the pattern in any case, whether or
\* not the name of the file holds the pattern.
C12_ContentSearch ==
  (last.tool = "search_files" /\ last.args.include_content
     /\ last.result.kind = "ok")
    => \A item \in Searchable(allowed_dirs, last.pre, last.args.path) :
         HoldsPattern(last.pre, item, last.args.pattern)
           => \E k \in 1..Len(last.result.payload.matches) :
                LET match == last.result.payload.matches[k]
                IN  /\ match.info.path = Str(item)
                    /\ match.match_type = "content"
                    /\ match.matching_lines # <<>>
                    /\ \A j \in 1..Len(match.matching_lines) :
                         Contains(ToLower(last.args.pattern),
                                  ToLower(TextLines(StatNode(last.pre, item).data)
                                            [match.matching_lines[j].line]))

\* the entry of the traversal a match describes
ItemOf(f, root, match) ==
  CHOOSE item \in RGlob(f, root, Locate(f, root).path) :
    Str(item) = match.info.path

\* the numbers, from 1, of the lines of the file at item that hold the pattern
LinesHolding(f, item, pattern) ==
  LET lines == TextLines(StatNode(f, item).data)
  IN  { i \in 1..Len(lines) : Contains(ToLower(pattern), ToLower(lines[i])) }

\* C13 (Matching-line cap): every match of every search result carries at
\* most 10 entries in matching_lines however many lines hold the pattern; the
\* entries are the first matching lines, in ascending order of their 1-based
\* line numbers.
C13_MatchingLineCap ==
  (last.tool = "search_files" /\ last.result.kind = "ok")
    => \A k \in 1..Len(last.result.payload.matches) :
         LET match   == last.result.payload.matches[k]
             entries == match.matching_lines
             kept    == { entries[j].line : j \in 1..Len(entries) }
             all     == LinesHolding(last.pre,
                                     ItemOf(last.pre, last.args.path, match),
                                     last.args.pattern)
         IN  /\ Len(entries) <= 10
             /\ \A j \in 1..(Len(entries) - 1) :
                   entries[j].line < entries[j + 1].line
             /\ entries # <<>>
                  => /\ kept \subseteq all
                     /\ \A i \in all \ kept : \A j \in kept : j < i
                     /\ Len(entries) < 10 => kept = all

\* a file with 11 matching lines, from line 2 on, gives the 10 entries of the
\* lines 2 to 11
C13_Witness ==
  /\ last.tool = "search_files" /\ last.result.kind = "ok"
  /\ \E k \in 1..Len(last.result.payload.matches) :
       LET match == last.result.payload.matches[k]
       IN  /\ Len(match.matching_lines) = 10
           /\ match.matching_lines[1].line = 2
           /\ match.matching_lines[10].line = 11
           /\ 12 \in LinesHolding(last.pre,
                                  ItemOf(last.pre, last.args.path, match),
                                  last.args.pattern)

\* C14 (Hash determinism): two hash calls on files holding identical bytes,
\* whatever their paths and names and whenever they are made, return
\* identical md5, sha1 and sha256 values and identical size; calls on files
\* holding different bytes return different digest values.
C14_HashDeterminism ==
  (last.tool = "get_file_hash" /\ last.result.kind = "ok")
    => \A other \in Storages \cup {fs} : \A file_path \in RawPaths :
         LET here  == last.result.payload
             there == GetFileHash(allowed_dirs, other, file_path)
         IN  there.kind = "ok"
               => IF StatNode(other, file_path).data
                       = StatNode(last.pre, last.args.path).data
                  THEN /\ there.payload.md5 = here.md5
                       /\ there.payload.sha1 = here.sha1
                       /\ there.payload.sha256 = here.sha256
                       /\ there.payload.size = here.size
                  ELSE /\ there.payload.md5 # here.md5
                       /\ there.payload.sha1 # here.sha1
                       /\ there.payload.sha256 # here.sha256

\* the file outside the roots that holds the bytes of the file hashed, and is
\* reached by another name, has the same digests; the script beside the file
\* has others
C14_Witness ==
  /\ last.tool = "get_file_hash" /\ last.result.kind = "ok"
  /\ last.args.path = <<N_a, N_x, N_k, N_md>>
  /\ GetFileHash(allowed_dirs, fs, <<N_a, N_b, N_md>>).kind = "ok"
  /\ GetFileHash(allowed_dirs, fs, <<N_a, N_b, N_md>>).payload.sha256
       = last.result.payload.sha256
  /\ GetFileHash(allowed_dirs, fs, <<N_a, N_b, N_SH>>).kind = "ok"
  /\ GetFileHash(allowed_dirs, fs, <<N_a, N_b, N_SH>>).payload.sha256
       # last.result.payload.sha256

\* a canonical location is an allowed root or lies below one
LocationInside(dirs, at) ==
  \E n \in 0..Len(at) : Str(SubSeq(at, 1, n)) \in dirs

\* C15 (Check and use act on the same canonical path): every storage access
\* of an operation targets the canonical path its policy check saw, so that
\* no operation reads or writes a location outside every allowed root, also
\* when another actor re-points a symlink of the requested path between the
\* check and the access.
C15_CheckAndUse ==
  (flight.stage = "done" /\ last.tool \in {"read_file", "get_file_hash"})
    => \A access \in last.result.io :
         /\ access.at = flight.at
         /\ LocationInside(allowed_dirs, access.at)

\* the limit a read or a hash applies
AppliedLimit ==
  IF last.tool = "read_file" THEN ReadSizeLimit(last.args.max_size)
  ELSE MAX_FILE_SIZE

\* C16 (Concurrent invocations): under any interleaving with writes of other
\* callers to the same file, a read or hash that succeeds returns or digests
\* no more bytes than the limit in force and reports the byte length of the
\* content it read.
C16_ConcurrentSafe ==
  (flight.stage = "done" /\ last.tool \in {"read_file", "get_file_hash"}
     /\ last.result.kind = "ok")
    => /\ StatNode(fs, last.args.path).size <= AppliedLimit
       /\ last.result.payload.size = StatNode(fs, last.args.path).size

\* C17 (Policy immutable): no operation, successful or failed, adds, removes
\* or rewrites an allowed root: the allowed root set stays what the
\* construction of the engine made it.  (The extension lists and the default
\* size limit are constants of the module.)
C17_PolicyImmutable == [][allowed_dirs' = allowed_dirs]_vars

\* a write has changed the storage and the roots are those of construction
C17_Witness ==
  /\ last.tool = "write_file" /\ last.result.kind = "ok"
  /\ fs # last.pre
  /\ NodeAt(fs, <<N_a, N_b, N_d>>).kind = "dir"
  /\ allowed_dirs = InitAllowedDirs(last.pre)

ExistenceFailures ==
  { "File not found", "Not a file", "Parent directory does not exist" }

\* C18 (Global check ordering), as claimed: in every operation the policy
\* checks (path-allowed, extension-allowed) come before any existence or type
\* check, and these before any size check: a request violating a policy
\* precondition returns the policy failure whatever the existence, type or
\* size of the target, and one violating an existence and a size precondition
\* returns the existence failure.
C18_GlobalOrder ==
  (OnPath /\ last.tool \in {"read_file", "write_file"})
    => LET allowed   == IsPathAllowed(allowed_dirs, last.pre, last.args.path)
           extension == IsExtensionAllowed(last.args.path)
           present   == IF last.tool = "read_file"
                        THEN IsFile(last.pre, last.args.path)
                        ELSE last.args.create_dirs
                               \/ Exists(last.pre, Parent(last.args.path))
       IN  /\ ~allowed => AccessDenied(last.result)
           /\ (allowed /\ ~extension)
                => last.result.error = "File type not allowed"
           /\ (allowed /\ extension /\ ~present)
                => last.result.error \in ExistenceFailures

\* C18, amended: the path-allowed check comes before every other check and
\* before any storage access; the other checks follow the order of each
\* operation: read tests existence and type before the extension and the
\* extension before the size, hash tests existence and type before the size,
\* write tests the extension, then the size of the content, then the parent.
C18_PathCheckFirst ==
  LET allowed == IsPathAllowed(allowed_dirs, last.pre, last.args.path)
      exists  == Exists(last.pre, last.args.path)
      is_file == IsFile(last.pre, last.args.path)
  IN  /\ (OnPath /\ ~allowed)
           => (AccessDenied(last.result) /\ last.result.io = {})
      /\ (last.tool = "read_file" /\ OnPath /\ allowed /\ ~exists)
           => last.result.error = "File not found"
      /\ (last.tool = "read_file" /\ OnPath /\ allowed /\ exists /\ ~is_file)
           => last.result.error = "Not a file"
      /\ (last.tool \in {"read_file", "get_file_hash"} /\ OnPath /\ allowed
            /\ ~is_file)
           => ~TooLarge(last.result)
      /\ (last.tool = "write_file" /\ OnPath /\ allowed
            /\ ~IsExtensionAllowed(last.args.path))
           => last.result.error = "File type not allowed"
      /\ (last.tool = "write_file" /\ OnPath /\ allowed
            /\ IsExtensionAllowed(last.args.path)
            /\ last.args.content.encodable
            /\ last.args.content.bytes > MAX_FILE_SIZE)
           => last.result.error = "Content too large"

\* the read of a missing file with a refused extension reports the missing
\* file
C18_Witness ==
  /\ last.tool = "read_file"
  /\ last.args.path = <<N_a, N_b, N_qSH>>
  /\ IsPathAllowed(allowed_dirs, last.pre, last.args.path)
  /\ ~IsExtensionAllowed(last.args.path)
  /\ ~Exists(last.pre, last.args.path)
  /\ last.result.error = "File not found"

\* the entries below the search root whose resolved path is in no allowed
\* directory
OutsideEntries(dirs, f, root) ==
  { item \in RGlob(f, root, Locate(f, root).path) :
      ~CanonicalInside(dirs, f, item) }

\* C19 (Search re-checks containment per entry): every match of a search has
\* a resolved path inside an allowed directory; an entry below the search
\* root whose resolved path is outside every allowed directory is no match,
\* and neither its metadata nor its content is read.
C19_SearchContained ==
  (last.tool = "search_files" /\ last.result.kind = "ok" /\ OnPath)
    => LET matches == last.result.payload.matches
           outside == OutsideEntries(allowed_dirs, last.pre, last.args.path)
       IN  /\ \A k \in 1..Len(matches) :
                 matches[k].info.error = ""
                   => CanonicalInside(allowed_dirs, last.pre,
                                      ItemOf(last.pre, last.args.path,
                                             matches[k]))
           /\ \A item \in outside :
                 /\ \A k \in 1..Len(matches) :
                       matches[k].info.path # Str(item)
                 /\ \A a \in last.result.io :
                       a.act \in {"stat", "read"}
                         => a.at # Locate(last.pre, item).path

\* C20 (list never discloses anything outside the sandbox): every item of a
\* listing describes an object whose resolved location is inside an allowed
\* directory; an entry that is a symlink to a target outside every allowed
\* directory does not bring the size or the type of its target into the
\* listing.
C20_ListContained ==
  (last.tool = "list_directory" /\ last.result.kind = "ok" /\ OnPath
     /\ CanonicalInside(allowed_dirs, last.pre, last.args.path))
    => \A k \in 1..Len(last.result.payload.items) :
         LET info == last.result.payload.items[k]
         IN  info.error = ""
               => CanonicalInside(allowed_dirs, last.pre,
                                  Append(last.args.path, info.name))

\* the objects below the directory root names, as the paths a traversal from
\* root gives them: the stored objects whose location extends the location
\* of root
Descendants(f, root) ==
  LET top == Locate(f, root).path
  IN  { root \o SubSeq(q, Len(top) + 1, Len(q)) :
          q \in { p \in DOMAIN f : /\ Len(p) > Len(top)
                                   /\ SubSeq(p, 1, Len(top)) = top
                                   /\ f[p].kind # "none" } }

\* the paths of the matches of a search result
MatchPaths(matches) == { matches[k].info.path : k \in 1..Len(matches) }

\* C21 (Filename matching): without include_content, a search of a permitted
\* directory returns exactly the descendants of the directory that pass the
\* path check and whose name holds the pattern, compared without regard to
\* case; every match has match_type "filename", and total_matches is the
\* number of matches.
C21_FilenameMatching ==
  (last.tool = "search_files" /\ ~last.args.include_content /\ OnPath
     /\ IsPathAllowed(allowed_dirs, last.pre, last.args.path)
     /\ IsDir(last.pre, last.args.path))
    => LET matches == last.result.payload.matches
           named   == { item \in Descendants(last.pre, last.args.path) :
                          /\ IsPathAllowed(allowed_dirs, last.pre, item)
                          /\ Contains(ToLower(last.args.pattern),
                                      ToLower(Name(item))) }
       IN  /\ last.result.kind = "ok"
           /\ MatchPaths(matches) = { Str(item) : item \in named }
           /\ Len(matches) = Cardinality(named)
           /\ \A k \in 1..Len(matches) :
                 /\ matches[k].match_type = "filename"
                 /\ matches[k].matching_lines = <<>>
           /\ last.result.payload.total_matches = Len(matches)

\* a search for "N" finds n.md and n.SH and leaves out the other entries
C21_Witness ==
  /\ last.tool = "search_files"
  /\ ~last.args.include_content
  /\ last.args.pattern = <<"N">>
  /\ last.result.kind = "ok"
  /\ last.result.payload.total_matches = 2
  /\ Cardinality(Descendants(last.pre, last.args.path)) > 2
  /\ \A k \in 1..2 :
        last.result.payload.matches[k].info.name \in {N_md, N_SH}

\* the descendants of root whose content a search may not scan: no regular
\* file, a refused extension, or a size over the limit
Unscannable(f, root) ==
  { item \in Descendants(f, root) :
      \/ ~IsFile(f, item)
      \/ ~IsExtensionAllowed(item)
      \/ StatNode(f, item).size > MAX_FILE_SIZE }

\* C22 (Content scan gating): a search reads the bytes of an entry only when
\* include_content is set and the entry is a regular file with a permitted
\* extension and a size within the limit; the content of any other entry is
\* never read, and the entry is never reported with match_type "content" or
\* with matching_lines.
C22_ScanGating ==
  (last.tool = "search_files" /\ OnPath)
    => LET reads == { a.at : a \in { b \in last.result.io : b.act = "read" } }
           barred == Unscannable(last.pre, last.args.path)
       IN  /\ reads # {} => last.args.include_content
           /\ \A item \in barred : Locate(last.pre, item).path \notin reads
           /\ last.result.kind = "ok"
                => \A k \in 1..Len(last.result.payload.matches) :
                     LET match == last.result.payload.matches[k]
                     IN  (match.match_type = "content"
                            \/ match.matching_lines # <<>>)
                           => /\ last.args.include_content
                              /\ \A item \in barred :
                                    match.info.path # Str(item)

\* a search with include_content over a directory with a script and a file
\* over the limit, both matched by name and neither read
C22_Witness ==
  /\ last.tool = "search_files"
  /\ last.args.include_content
  /\ last.args.path = <<N_a, N_b>>
  /\ last.args.pattern = <<"N">>
  /\ last.result.kind = "ok"
  /\ StatNode(last.pre, <<N_a, N_b, N_md>>).size > MAX_FILE_SIZE
  /\ {Str(<<N_a, N_b, N_md>>), Str(<<N_a, N_b, N_SH>>)}
       \subseteq MatchPaths(last.result.payload.matches)
  /\ \A a \in last.result.io : a.act # "read"

\* C23 (Per-entry failures do not abort search): a search of a permitted,
\* existing directory succeeds whatever fails on a single entry (bytes that
\* cannot be decoded, a permission error, an entry that cannot be read): it
\* returns the matches for the other entries, and no top-level error.
C23_PerEntryFailures ==
  (last.tool = "search_files" /\ OnPath
     /\ IsPathAllowed(allowed_dirs, last.pre, last.args.path)
     /\ IsDir(last.pre, last.args.path))
    => /\ last.result.kind = "ok"
       /\ { Str(item) :
              item \in { d \in Descendants(last.pre, last.args.path) :
                           /\ IsPathAllowed(allowed_dirs, last.pre, d)
                           /\ Contains(ToLower(last.args.pattern),
                                       ToLower(Name(d)))
                           /\ StatNode(last.pre, d).fault = ""
                           /\ StatNode(last.pre, d).utf8 } }
            \subseteq MatchPaths(last.result.payload.matches)

NotFoundMessages == { "File not found", "Directory not found" }

WrongTypeMessages == { "Not a file", "Not a directory" }

\* C24 (Existence failures and type failures are distinct): on a permitted
\* path that does not exist, hash, list, search and read answer "not found";
\* on a permitted path of the wrong type (a directory for hash and read, a
\* regular file for list and search) they answer "not a file" or "not a
\* directory", a result that differs from "not found".
C24_ExistenceAndType ==
  (last.tool \in {"get_file_hash", "list_directory", "search_files",
                   "read_file"}
     /\ OnPath
     /\ IsPathAllowed(allowed_dirs, last.pre, last.args.path))
    => LET of_files == last.tool \in {"get_file_hash", "read_file"}
           exists   == Exists(last.pre, last.args.path)
           typed    == IF of_files THEN IsFile(last.pre, last.args.path)
                       ELSE IsDir(last.pre, last.args.path)
       IN  /\ ~exists
             => (last.result.kind = "error"
                   /\ last.result.error \in NotFoundMessages)
           /\ (exists /\ ~typed)
             => (last.result.kind = "error"
                   /\ last.result.error \in WrongTypeMessages)

\* C25 (FileInfo carries the canonical path): the path of every FileInfo of
\* read, write, list and get_file_info is the resolved path of the object
\* (absolute, without symlinks and ".."), not the path as the caller wrote it;
\* requests that name one object by different paths get the same path field.
C25_CanonicalPath ==
  (OnPath /\ last.result.kind = "ok")
    => /\ last.tool \in {"read_file", "write_file", "get_file_info"}
            => LET info == last.result.payload.file_info
               IN  info.error = ""
                     => info.path = Str(Resolve(fs, last.args.path).path)
       /\ last.tool = "list_directory"
            => \A k \in 1..Len(last.result.payload.items) :
                 LET info == last.result.payload.items[k]
                 IN  info.error = ""
                       => info.path =
                            Str(Resolve(fs, Append(last.args.path,
                                                   info.name)).path)

ListedNames(f, dir, include_hidden) ==
  { n \in ChildNames(f, Locate(f, dir).path) :
      include_hidden \/ Head(n) # "." }

\* C27 (list result shape): the listing of a permitted, existing directory
\* holds its entries in ascending order of their names compared without
\* regard to case, without the entries whose name starts with "." unless
\* include_hidden is set; total_items, files and directories are the numbers
\* of the entries, of those flagged is_file and of those flagged is_dir.
C27_ListShape ==
  (last.tool = "list_directory" /\ OnPath
     /\ IsPathAllowed(allowed_dirs, last.pre, last.args.path)
     /\ IsDir(last.pre, last.args.path))
    => LET out   == last.result.payload
           items == out.items
           names == ListedNames(last.pre, last.args.path,
                                last.args.include_hidden)
       IN  /\ last.result.kind = "ok"
           /\ { items[k].name : k \in 1..Len(items) } = names
           /\ Len(items) = Cardinality(names)
           /\ \A k \in 1..(Len(items) - 1) :
                 ~StrLess(ToLower(items[k + 1].name), ToLower(items[k].name))
           /\ out.total_items = Len(items)
           /\ out.files =
                Cardinality({ k \in 1..Len(items) : items[k].is_file })
           /\ out.directories =
                Cardinality({ k \in 1..Len(items) : items[k].is_dir })

\* the listing of /a/b without hidden entries: l, n.md, n.SH in this order,
\* .h.md left out
C27_Witness ==
  /\ last.tool = "list_directory"
  /\ last.args.path = <<N_a, N_b>>
  /\ ~last.args.include_hidden
  /\ last.result.kind = "ok"
  /\ N_h \in ChildNames(last.pre, <<N_a, N_b>>)
  /\ [k \in 1..Len(last.result.payload.items) |->
        last.result.payload.items[k].name] = <<N_l, N_md, N_SH>>
  /\ last.result.payload.files = 2
  /\ last.result.payload.directories = 1

(***************************************************************************)
(* Storage with symlink cycles: /a/b/o is a symlink to itself and /a/b/u   *)
(* a symlink to the directory that holds it.  The requests include a write *)
(* the file system refuses after the parent directory was made.            *)
(***************************************************************************)
N_o == <<"o">>

N_u == <<"u">>

LoopTree(inside) ==
  Put(Put(Tree(inside, NoNode),
          <<N_a, N_b, N_o>>, LinkNode(<<N_a, N_b, N_o>>)),
      <<N_a, N_b, N_u>>, LinkNode(<<N_a, N_b>>))

LoopPaths ==
  { <<N_a, N_b, N_o>>,                   \* the cycle
    <<N_a, N_b, N_o, N_md>>,             \* through the cycle
    <<N_a, N_b, N_u, N_o>>,              \* to the cycle by the other link
    <<N_a, N_b, N_u, N_md>>,             \* a file, by the link to the parent
    <<N_a, N_b, N_u>>,                   \* the link to the parent
    <<N_a, N_b, N_md>>,
    <<N_a, N_b>> }

\* a file name of NAME_MAX + 1 characters
N_long == [i \in 1..(NAME_MAX - 2) |-> "x"] \o <<".","m","d">>

\* a file with a name too long, below a directory that is missing
LongPaths == { <<N_a, N_b, N_d, N_long>> }

InitLoop ==
  /\ \E inside \in InsideFiles : fs = LoopTree(inside)
  /\ allowed_dirs = InitAllowedDirs(fs)
  /\ last = [tool |-> "none", args |-> NoArgs, pre |-> fs,
             result |-> NoResult, reply |-> NoResult]
  /\ writes = 0
  /\ flight = NoFlight
  /\ WeatherInit

\* a call of a tool that leaves the storage alone
CallOnLoop ==
  Idle /\ \E tool \in ToolNames \ {"write_file"}, path \in LoopPaths,
             max_size \in {<<>>, <<1>>}, pattern \in Patterns,
             flag \in BOOLEAN :
    \E args \in { [NoArgs EXCEPT
                     !.path = path,
                     !.max_size = IF tool = "read_file" THEN max_size
                                  ELSE <<>>,
                     !.pattern = IF tool = "search_files" THEN pattern
                                 ELSE <<>>,
                     !.include_hidden = tool = "list_directory" /\ flag,
                     !.include_content = tool = "search_files" /\ flag] } :
      Called(tool, args, Operate(tool, allowed_dirs, fs, args))

WriteOnLoop ==
  Idle /\ \E path \in LoopPaths \cup LongPaths, content \in Contents, create_dirs \in BOOLEAN :
    \E out \in {WriteFile(allowed_dirs, fs, path, content, create_dirs)} :
        /\ out.fs = fs \/ writes < MaxWrites
        /\ fs' = out.fs
        /\ writes' = IF out.fs = fs THEN writes ELSE writes + 1
        /\ last' = [tool |-> "write_file",
                    args |-> [NoArgs EXCEPT !.path = path,
                                            !.content = content,
                                            !.create_dirs = create_dirs],
                    pre |-> fs, result |-> out.result,
                    reply |-> HandleCallTool("write_file", TRUE, out.result)]
        /\ UNCHANGED <<allowed_dirs, flight, wvars>>

NextLoop ==
  \/ CallOnLoop
  \/ WriteOnLoop
  \/ Respond

SpecLoop == InitLoop /\ [][NextLoop]_vars

\* C28 (Every operation terminates with a result): a call on a path whose
\* resolution runs into a symlink cycle ends in an error result, with no
\* exception left and the storage as it was; a search over a tree holding
\* symlinks back to an ancestor returns, each match a stored object below the
\* search directory, reported once.
C28_Terminates ==
  OnPath
    => /\ last.result.kind \in {"ok", "error"}
       /\ last.reply.kind \in {"ok", "error"}
       /\ ~Resolve(last.pre, last.args.path).ok
            => (last.result.kind = "error" /\ last.result.io = {}
                  /\ fs = last.pre)
       /\ (last.tool = "search_files" /\ last.result.kind = "ok")
            => LET matches == last.result.payload.matches
               IN  /\ MatchPaths(matches) \subseteq
                        { Str(d) : d \in Descendants(last.pre,
                                                     last.args.path) }
                   /\ Len(matches) = Cardinality(MatchPaths(matches))

\* a read through the cycle is refused, and a search of the directory that
\* holds the cycle and a link to itself finds n.md once
C28_Witness ==
  \/ /\ last.tool = "read_file"
     /\ last.args.path = <<N_a, N_b, N_o, N_md>>
     /\ NodeAt(last.pre, <<N_a, N_b, N_o>>).target = <<N_a, N_b, N_o>>
     /\ AccessDenied(last.result)
  \/ /\ last.tool = "search_files"
     /\ last.args.path = <<N_a, N_b>>
     /\ last.args.pattern = <<"N">>
     /\ NodeAt(last.pre, <<N_a, N_b, N_u>>).target = <<N_a, N_b>>
     /\ last.result.kind = "ok"
     /\ last.result.payload.total_matches = 2

\* C29 (Storage changes only through a successful write): every call of
\* read_file, list_directory, search_files, get_file_info and get_file_hash,
\* and every write_file that returns a failure, leaves the storage as it was
\* before the call: no content changed, no file and no directory created,
\* also when create_dirs is set and the write then fails.
C29_OnlySuccessfulWrites ==
  (last.tool \in ToolNames
     /\ (last.tool # "write_file" \/ last.result.kind = "error"))
    => fs = last.pre

(***************************************************************************)
(* WeatherService._make_api_request.  A call that finds no valid entry     *)
(* waits for the network; other calls run while it waits.                  *)
(***************************************************************************)
\* what the network gives back: a status, or a ClientError, or a body that
\* is no JSON
Outcomes == { "200", "401", "404", "500", "ClientError", "NoJSON" }

\* lines 104-109 and 119-124: the error result of an outcome
ErrorOf(outcome) ==
  CASE outcome = "401" -> "Invalid API key"
    [] outcome = "404" -> "Location not found"
    [] outcome = "ClientError" -> "Network error"
    [] outcome = "NoJSON" -> "Unexpected error"
    [] OTHER -> "API error"

\* lines 89-101: the cache is looked up; a valid entry is returned, else the
\* request is sent
MakeApiRequest ==
  \E r \in WeatherRequests :
    LET cache_key == CacheKey(r.endpoint, r.params)
        entry     == weather_cache[cache_key]
    IN  /\ r \notin calls
        /\ IF entry.held /\ IsCacheValid(clock, entry.timestamp)
             THEN /\ served' = [request |-> r, from_cache |-> TRUE,
                                data |-> entry.data, error |-> "",
                                age |-> elapsed - entry.stored]
                  /\ calls' = calls
             ELSE /\ Cardinality(calls) < MaxCalls
                  /\ calls' = calls \cup {r}
                  /\ served' = served
        /\ UNCHANGED <<weather_cache, clock, elapsed>>
        /\ UNCHANGED fvars

\* lines 102-124: the response arrives; a 200 with a JSON body is stored with
\* the clock reading and returned, anything else gives an error result
ApiResponse ==
  \E r \in calls, outcome \in Outcomes :
    LET cache_key == CacheKey(r.endpoint, r.params)
        data      == [endpoint |-> r.endpoint, params |-> r.params,
                      status |-> outcome]
    IN  /\ calls' = calls \ {r}
        /\ IF outcome = "200"
             THEN /\ weather_cache' =
                       [weather_cache EXCEPT ![cache_key] =
                          [held |-> TRUE, data |-> data,
                           timestamp |-> clock, stored |-> elapsed]]
                  /\ served' = [request |-> r, from_cache |-> FALSE,
                                data |-> data, error |-> "", age |-> 0]
             ELSE /\ weather_cache' = weather_cache
                  /\ served' = [request |-> r, from_cache |-> FALSE,
                                data |-> <<>>, error |-> ErrorOf(outcome),
                                age |-> 0]
        /\ UNCHANGED <<clock, elapsed>>
        /\ UNCHANGED fvars

\* time passes
Tick ==
  /\ elapsed + TickMinutes <= MaxElapsed
  /\ elapsed' = elapsed + TickMinutes
  /\ clock' = clock + TickMinutes
  /\ UNCHANGED <<weather_cache, calls, served>>
  /\ UNCHANGED fvars

\* datetime.now() is the local wall clock: daylight saving time ends and the
\* clock is set back
ClockSetBack ==
  /\ clock = elapsed
  /\ clock' = clock - DstShift
  /\ UNCHANGED <<weather_cache, elapsed, calls, served>>
  /\ UNCHANGED fvars

InitWeather ==
  /\ fs = Tree(FileNode("one", 1, TRUE, ""), NoNode)
  /\ allowed_dirs = InitAllowedDirs(fs)
  /\ last = [tool |-> "none", args |-> NoArgs, pre |-> fs,
             result |-> NoResult, reply |-> NoResult]
  /\ writes = 0
  /\ flight = NoFlight
  /\ WeatherInit

NextWeather ==
  \/ MakeApiRequest
  \/ ApiResponse
  \/ Tick
  \/ ClockSetBack

SpecWeather == InitWeather /\ [][NextWeather]_vars

\* C30 (Weather cache freshness): every response _make_api_request serves
\* from the cache is a successful HTTP 200 response stored less than
\* CACHE_DURATION earlier for the same endpoint and the same parameters; no
\* error result is ever stored; an entry of an age of CACHE_DURATION or more
\* is not served.
C30_CacheFreshness ==
  /\ served.from_cache
       => /\ served.data.status = "200"
          /\ served.data.endpoint = served.request.endpoint
          /\ served.data.params = served.request.params
          /\ served.age < CACHE_DURATION
  /\ \A k \in CacheKeys :
        weather_cache[k].held => weather_cache[k].data.status = "200"

=============================================================================
